---------------------------- MODULE Spec2Model ----------------------------
(***************************************************************************)
(* A model of the antigravity-openai-proxy core.  The proxy is made of     *)
(* four pieces of state that do not share variables, so each one gets its  *)
(* own specification over the module's variables (the credential cache     *)
(* has a second one, SpecCache, that starts from a full cache):            *)
(*                                                                         *)
(*   SpecClient    the upstream client (endpoint failover, capacity        *)
(*                 backoff, cross-style fallback)                          *)
(*   SpecTranslate the message translator toGeminiFormat                   *)
(*   SpecStream    the stream transformer and the SSE re-framing           *)
(*   SpecAuth      the credential cache with its single-flight refresh     *)
(*                                                                         *)
(* In each specification the variables of the other pieces stay at their   *)
(* idle values.                                                            *)
(***************************************************************************)
EXTENDS Integers, Sequences, FiniteSets, TLC

VARIABLES
    \* ---- upstream client (makeAntigravityRequest) ----
    caller,               \* who called: "orchestrator" or "direct"
    style,                \* options.headerStyle ?? "antigravity"
    payload,              \* the request body: [model, agentFields]
    i,                    \* index into endpoints (0-based, as in the source)
    capacityRetryCount,   \* retries already made on endpoints[i]
    lastError,            \* "undefined" or the status of the last other non-2xx
    cpc,                  \* where the call is: loop, fetch, sleep, returned, thrown
    depth,                \* number of recursive calls made (cross-style fallback)
    waitMs,               \* the duration of the sleep in progress
    response,             \* the response being handled / last handled
    postsTo,              \* history: POSTs sent, per style and endpoint
    sleepsOn,             \* history: sleeps made, per style and endpoint
    lastAnswer,           \* history: last answer class, per style and endpoint
    thrown,               \* what the call threw: "none", a status, or "exhausted"
    \* ---- message translator (toGeminiFormat) ----
    messages,             \* the input list
    mpos,                 \* number of messages already consumed by the for loop
    contents,             \* the output list built so far
    systemInstruction,
    pendingCallIdsByName, \* name -> queue of ids
    uuidCounter,          \* number of ids synthesised so far
    \* ---- stream transformer and SSE framing ----
    keepThinking,         \* ENV.keepThinking
    frames,               \* history: the frames handed to processGeminiChunk
    buffer,               \* the transformer's line buffer (a partial line)
    ctx,                  \* StreamContext: [toolCallIndex, emittedFunctionCalls]
    out,                  \* every chunk the transformer enqueued, in order
    tState,               \* the transformer's output stream: "reading", "closed"
    ssePos,               \* number of transformer chunks streamResponse has read
    sseOut,               \* every SSE frame streamResponse enqueued
    sseState,             \* the client stream: reading, cancelled, closed, rejected
    \* ---- credential cache ----
    tokenCache,           \* Map<string, TokenEntry> as a sequence in insertion order
    refreshPromises,      \* Map<string, Promise>: refresh token -> promise id
    cacheMetrics,
    cleanupTimer,         \* TRUE when the interval is set
    intervals,            \* the intervals set with setInterval and not cleared
    lastCall,             \* the exported function called last
    strays,               \* the refreshes the last clearTokenCache found in flight
    fingerprintCache,     \* set of refresh tokens with a fingerprint entry
    now,                  \* Date.now()
    promises,             \* every refresh started: its token, state and outcome
    calls,                \* number of getAccessToken calls past the token check
    \* ---- model identifiers ----
    modelName,            \* the identifier in hand: the input, then each result
    modelArg,             \* the identifier the last function was applied to
    applied,              \* the last application: the function and its 2nd argument
    applications,         \* number of applications made
    \* ---- request handler (chatCompletions) ----
    request,              \* the HTTP request: bearer, json, messages, model, effort
    envProjectId,         \* ENV.projectId, "" when ANTIGRAVITY_PROJECT_ID is unset
    hpc,                  \* where the handler is
    awaited,              \* the refresh whose promise the handler awaits, 0 for none
    accessToken,          \* what getAccessToken gave the handler last
    endpointAsked,        \* index of the endpoint loadCodeAssist was last sent to
    discoveryPosts,       \* history: loadCodeAssist requests sent
    projectId,            \* what getProjectId gave the handler
    thinkingConfig,       \* generationConfig.thinkingConfig
    sent,                 \* history: the calls of makeAntigravityRequest
    httpStatus,           \* the status of the handler's response, 0 before it
    \* ---- tool schema cleaning ----
    schemaTree,           \* the tree in hand: the input, then each result
    schemaArg,            \* the tree the last cleaner was called with, as it was
    schemaAfter,          \* the same object as the call left it
    cleanedBy,            \* the last cleaner called: none, cleanLight, cleanStrict
    cleanings,            \* number of calls made
    \* ---- the upstream body behind the transformer's reader ----
    unread,              \* the part of the body the reader has not given yet
    received              \* history: the part it has given, chunk after chunk

clientVars == <<caller, style, payload, i, capacityRetryCount, lastError, cpc,
                depth, waitMs, response, postsTo, sleepsOn, lastAnswer, thrown>>
xlateVars  == <<messages, mpos, contents, systemInstruction,
                pendingCallIdsByName, uuidCounter>>
streamVars == <<keepThinking, frames, buffer, ctx, out, tState, ssePos,
                sseOut, sseState>>
authVars   == <<tokenCache, refreshPromises, cacheMetrics, cleanupTimer, intervals,
               lastCall, strays,
                fingerprintCache, now, promises, calls>>
nameVars   == <<modelName, modelArg, applied, applications>>
orchVars   == <<request, envProjectId, hpc, awaited, accessToken, endpointAsked,
                discoveryPosts, projectId, thinkingConfig, sent, httpStatus>>
schemaVars == <<schemaTree, schemaArg, schemaAfter, cleanedBy, cleanings>>
bodyVars   == <<unread, received>>
handlerVars == <<nameVars, orchVars, schemaVars, bodyVars>>
vars == <<clientVars, xlateVars, streamVars, authVars, handlerVars>>

Min(a, b) == IF a < b THEN a ELSE b

RECURSIVE Pow2(_)
Pow2(n) == IF n = 0 THEN 1 ELSE 2 * Pow2(n - 1)

(***************************************************************************)
(* Model identifiers.  The code inspects a model string only by prefix,    *)
(* suffix and substring tests on '-'-separated words, so an identifier is  *)
(* the sequence of its segments: <<"gemini-3-pro", "preview", "low">> is   *)
(* "gemini-3-pro-preview-low".                                             *)
(***************************************************************************)
ClaudeSegments == {"claude-sonnet-4-5", "claude-opus-4-5"}
Gemini3Segments == {"gemini-3-pro", "gemini-3-flash", "gemini-3-ultra"}
TierSegments == {"low", "medium", "high", "minimal"}

SegmentsOf(model) == {model[k] : k \in 1..Len(model)}

\* String.toLowerCase, segment by segment; the identifiers of the model hold
\* upper-case letters in these segments only.
LowerSegment(seg) ==
    CASE seg = "GEMINI-3-PRO" -> "gemini-3-pro"
      [] seg = "HIGH" -> "high"
      [] OTHER -> seg

toLowerCase(model) == [k \in 1..Len(model) |-> LowerSegment(model[k])]

isClaudeModel(model) == SegmentsOf(model) \cap ClaudeSegments # {}

IncludesGemini3(model) == SegmentsOf(model) \cap Gemini3Segments # {}

EndsWith(model, segs) == Len(model) > 0 /\ model[Len(model)] \in segs

resolveModelForHeaderStyle(model, st) ==
    IF st = "antigravity" THEN model
    ELSE LET withoutTier == IF EndsWith(toLowerCase(model), TierSegments)
                            THEN SubSeq(model, 1, Len(model) - 1)
                            ELSE model
         IN  IF IncludesGemini3(toLowerCase(withoutTier))
                /\ ~EndsWith(withoutTier, {"preview"})
             THEN Append(withoutTier, "preview")
             ELSE withoutTier

ClientModels ==
    { <<"gemini-3-pro", "low">>, <<"gemini-3-flash">>, <<"gemini-2.5-flash">>,
      <<"claude-sonnet-4-5">> }


(***************************************************************************)
(*                           UPSTREAM CLIENT                               *)
(***************************************************************************)
ANTIGRAVITY_ENDPOINT_PROD == "prod"

ANTIGRAVITY_ENDPOINTS == <<"daily", "autopush", ANTIGRAVITY_ENDPOINT_PROD>>

Styles == {"antigravity", "gemini-cli"}
EndpointNames == {ANTIGRAVITY_ENDPOINTS[k] : k \in 1..Len(ANTIGRAVITY_ENDPOINTS)}

\* while (capacityRetryCount < 5)
MaxAttempts == 5
\* ... && capacityRetryCount < 4
RetryLimit == 4
baseDelayMs == 1000
maxDelayMs == 8000
\* Math.floor(Math.random() * 500) lies in 0 .. JitterRange - 1
JitterRange == 500

\* Mutant of endpoints: the style is ignored and every pass walks the full list.
endpointsIgnoringStyle(st) == ANTIGRAVITY_ENDPOINTS

\* const endpoints = style === "gemini-cli" ? [PROD] : ANTIGRAVITY_ENDPOINTS
endpoints(st) ==
    IF st = "gemini-cli" THEN <<ANTIGRAVITY_ENDPOINT_PROD>> ELSE ANTIGRAVITY_ENDPOINTS

\* The answers an endpoint can give: a status and what its body text holds.
Statuses == {200, 429, 503, 500, 403}
Bodies == {"RESOURCE_EXHAUSTED", "MODEL_CAPACITY_EXHAUSTED", "INTERNAL",
           "SERVER_ERROR", "QUOTA_PROJECT", "unreadable"}
Responses == [status : Statuses, body : Bodies]
NoResponse == [status |-> 0, body |-> "none"]

ok(resp) == resp.status >= 200 /\ resp.status <= 299

parseErrorReason(resp) ==
    IF resp.body \in {"RESOURCE_EXHAUSTED", "MODEL_CAPACITY_EXHAUSTED"}
    THEN "MODEL_CAPACITY_EXHAUSTED"
    ELSE IF resp.body \in {"INTERNAL", "SERVER_ERROR"}
    THEN "SERVER_ERROR"
    ELSE "null"

\* Mutant of exponentialDelay: the delay grows by one base delay per retry.
exponentialDelayLinear(count) == Min(baseDelayMs * (count + 1), maxDelayMs)

\* Math.min(baseDelayMs * Math.pow(2, capacityRetryCount), maxDelayMs)
exponentialDelay(count) == Min(baseDelayMs * Pow2(count), maxDelayMs)

Jitters == {0, JitterRange - 1}

Undefined == [kind |-> "undefined", status |-> 0]
ApiError(status) == [kind |-> "api", status |-> status]
Exhausted == [kind |-> "exhausted", status |-> 0]
NotThrown == [kind |-> "none", status |-> 0]

NoPosts == [s \in Styles |-> [e \in EndpointNames |-> 0]]
NoAnswers == [s \in Styles |-> [e \in EndpointNames |-> "none"]]

endpoint == endpoints(style)[i + 1]

ClientIdle ==
    /\ caller = "none"
    /\ style = "antigravity"
    /\ payload = [model |-> <<>>, agentFields |-> FALSE]
    /\ i = 0
    /\ capacityRetryCount = 0
    /\ lastError = Undefined
    /\ cpc = "idle"
    /\ depth = 0
    /\ waitMs = 0
    /\ response = NoResponse
    /\ postsTo = NoPosts
    /\ sleepsOn = NoPosts
    /\ lastAnswer = NoAnswers
    /\ thrown = NotThrown

\* The style the orchestrator passes: claude ? "antigravity" : "gemini-cli".
OrchestratorStyle(model) ==
    IF isClaudeModel(model) THEN "antigravity" ELSE "gemini-cli"

\* A call of makeAntigravityRequest: by the orchestrator with the style it
\* picks, or directly with either style (the default is "antigravity").
InitClientCall ==
    /\ caller \in {"orchestrator", "direct"}
    /\ \E m \in ClientModels : payload = [model |-> m, agentFields |-> TRUE]
    /\ style \in Styles
    /\ caller = "orchestrator" => style = OrchestratorStyle(payload.model)
    /\ i = 0
    /\ capacityRetryCount = 0
    /\ lastError = Undefined
    /\ cpc = "loop"
    /\ depth = 0
    /\ waitMs = 0
    /\ response = NoResponse
    /\ postsTo = NoPosts
    /\ sleepsOn = NoPosts
    /\ lastAnswer = NoAnswers
    /\ thrown = NotThrown

ClientFrame == UNCHANGED <<xlateVars, streamVars, authVars, handlerVars>>

\* const response = await fetch(url, {method: 'POST', ...}): the request leaves.
SendPost ==
    /\ cpc = "loop"
    /\ ClientFrame
    /\ cpc' = "fetch"
    /\ postsTo' = [postsTo EXCEPT ![style][endpoint] = @ + 1]
    /\ UNCHANGED <<caller, style, payload, i, capacityRetryCount, lastError,
                   depth, waitMs, response, sleepsOn, lastAnswer, thrown>>

\* Mutant of AfterLoop: the fallback is taken without the Claude-family test.
AfterLoopAnyModel(err) ==
    IF style = "antigravity"
    THEN /\ style' = "gemini-cli"
         /\ payload' = [model |-> resolveModelForHeaderStyle(payload.model, "gemini-cli"),
                        agentFields |-> FALSE]
         /\ i' = 0
         /\ capacityRetryCount' = 0
         /\ lastError' = Undefined
         /\ depth' = depth + 1
         /\ cpc' = "loop"
         /\ thrown' = thrown
    ELSE /\ cpc' = "thrown"
         /\ thrown' = IF err = Undefined THEN Exhausted ELSE err
         /\ lastError' = err
         /\ UNCHANGED <<style, payload, i, capacityRetryCount, depth>>

\* Mutant of AfterLoop: a gemini-cli pass is re-issued once more.
AfterLoopTwice(err) ==
    IF (style = "antigravity" \/ depth < 2) /\ ~isClaudeModel(payload.model)
    THEN /\ style' = "gemini-cli"
         /\ payload' = [model |-> resolveModelForHeaderStyle(payload.model, "gemini-cli"),
                        agentFields |-> FALSE]
         /\ i' = 0
         /\ capacityRetryCount' = 0
         /\ lastError' = Undefined
         /\ depth' = depth + 1
         /\ cpc' = "loop"
         /\ thrown' = thrown
    ELSE /\ cpc' = "thrown"
         /\ thrown' = IF err = Undefined THEN Exhausted ELSE err
         /\ lastError' = err
         /\ UNCHANGED <<style, payload, i, capacityRetryCount, depth>>

\* The code after the for loop (lines 208-221), with lastError as err.
AfterLoop(err) ==
    IF style = "antigravity" /\ ~isClaudeModel(payload.model)
    THEN /\ style' = "gemini-cli"
         /\ payload' = [model |-> resolveModelForHeaderStyle(payload.model, "gemini-cli"),
                        agentFields |-> FALSE]
         /\ i' = 0
         /\ capacityRetryCount' = 0
         /\ lastError' = Undefined
         /\ depth' = depth + 1
         /\ cpc' = "loop"
         /\ thrown' = thrown
    ELSE /\ cpc' = "thrown"
         /\ thrown' = IF err = Undefined THEN Exhausted ELSE err
         /\ lastError' = err
         /\ UNCHANGED <<style, payload, i, capacityRetryCount, depth>>

\* Mutant of Break: the error is thrown where the code breaks to go on.
BreakThrows(err) ==
    /\ cpc' = "thrown"
    /\ thrown' = IF err = Undefined THEN Exhausted ELSE err
    /\ lastError' = err
    /\ UNCHANGED <<style, payload, i, capacityRetryCount, depth>>

\* break: leave the while loop of endpoints[i]; the for loop moves on.
Break(err) ==
    IF i + 1 < Len(endpoints(style))
    THEN /\ i' = i + 1
         /\ capacityRetryCount' = 0
         /\ lastError' = err
         /\ cpc' = "loop"
         /\ UNCHANGED <<style, payload, depth, thrown>>
    ELSE AfterLoop(err)

\* Mutant of ShouldRetry: the reason is not looked at.
ShouldRetryAnyReason(reason, count) == count < RetryLimit

\* Mutant of ShouldRetry: the retry test is off by one (<= 4 for < 4).
ShouldRetryOffByOne(reason, count) ==
    reason \in {"MODEL_CAPACITY_EXHAUSTED", "SERVER_ERROR"} /\ count <= RetryLimit

\* Whether a 429/503 with this reason is retried on the same endpoint.
ShouldRetry(reason, count) ==
    reason \in {"MODEL_CAPACITY_EXHAUSTED", "SERVER_ERROR"} /\ count < RetryLimit

\* The answer of endpoints[i] arrives and lines 165-204 handle it.
Receive(resp) ==
    /\ cpc = "fetch"
    /\ ClientFrame
    /\ response' = resp
    /\ lastAnswer' = [lastAnswer EXCEPT ![style][endpoint] =
                         IF ok(resp) THEN "2xx" ELSE "non2xx"]
    /\ UNCHANGED <<caller, postsTo>>
    /\ IF ok(resp)
       THEN /\ cpc' = "returned"
            /\ UNCHANGED <<style, payload, i, capacityRetryCount, lastError,
                           depth, waitMs, sleepsOn, thrown>>
       ELSE IF resp.status = 429 \/ resp.status = 503
       THEN IF ShouldRetry(parseErrorReason(resp), capacityRetryCount)
            THEN /\ \E jitter \in Jitters :
                       waitMs' = exponentialDelay(capacityRetryCount) + jitter
                 /\ sleepsOn' = [sleepsOn EXCEPT ![style][endpoint] = @ + 1]
                 /\ cpc' = "sleep"
                 /\ UNCHANGED <<style, payload, i, capacityRetryCount,
                                lastError, depth, thrown>>
            ELSE /\ Break(lastError)
                 /\ UNCHANGED <<waitMs, sleepsOn>>
       ELSE /\ UNCHANGED <<waitMs, sleepsOn>>
            /\ IF i < Len(endpoints(style)) - 1
               THEN Break(ApiError(resp.status))
               ELSE IF style = "antigravity" /\ ~isClaudeModel(payload.model)
               THEN Break(ApiError(resp.status))
               ELSE /\ cpc' = "thrown"
                    /\ thrown' = ApiError(resp.status)
                    /\ lastError' = ApiError(resp.status)
                    /\ UNCHANGED <<style, payload, i, capacityRetryCount, depth>>

\* await sleep(waitMs) ends; capacityRetryCount++; continue.
WakeUp ==
    /\ cpc = "sleep"
    /\ ClientFrame
    /\ waitMs' = 0
    /\ IF capacityRetryCount + 1 < MaxAttempts
       THEN /\ capacityRetryCount' = capacityRetryCount + 1
            /\ cpc' = "loop"
            /\ UNCHANGED <<style, payload, i, lastError, depth, thrown>>
       ELSE Break(lastError)
    /\ UNCHANGED <<caller, response, postsTo, sleepsOn, lastAnswer>>

NextClient ==
    \/ SendPost
    \/ \E resp \in Responses : Receive(resp)
    \/ WakeUp


(***************************************************************************)
(*                          MESSAGE TRANSLATOR                             *)
(*                                                                         *)
(* Ids are records: a client-supplied id, an id synthesised with           *)
(* crypto.randomUUID (the n-th one made; they are fresh, so distinct from  *)
(* each other and from the client's), the literal 'unknown', or absent.    *)
(***************************************************************************)
\* The most tool-calls and other messages one message list holds.
MaxItems == 4

AbsentId == [src |-> "absent", n |-> 0]
UnknownId == [src |-> "unknown", n |-> 0]
ClientId(n) == [src |-> "client", n |-> n]
\* `call_${crypto.randomUUID().replace(/-/g, '').slice(0, 24)}`
SynthId(n) == [src |-> "uuid", n |-> n]

ClientIds == {ClientId(123)}
FunctionNames == {"get_weather"}
\* "" is a missing name (or a missing string content)
NoName == ""

ToolCalls == [id : ClientIds \cup {AbsentId}, name : FunctionNames \cup {NoName}]

NoCalls == <<>>

AssistantCallMessages(n) ==
    { [role |-> "assistant", content |-> c, tool_calls |-> tc,
       name |-> NoName, tool_call_id |-> AbsentId] :
         c \in {"null", "text"}, tc \in [1..n -> ToolCalls] }

ToolMessages ==
    { [role |-> "tool", content |-> "result", tool_calls |-> NoCalls,
       name |-> nm, tool_call_id |-> id] :
         nm \in FunctionNames \cup {NoName}, id \in ClientIds \cup {AbsentId} }

PlainMessages ==
    { [role |-> r, content |-> "text", tool_calls |-> NoCalls,
       name |-> NoName, tool_call_id |-> AbsentId] : r \in {"system", "user"} }

\* What a message costs of the MaxItems budget.
Weight(msg) ==
    IF Len(msg.tool_calls) > 0
    THEN Len(msg.tool_calls) + (IF msg.content = "text" THEN 1 ELSE 0)
    ELSE 1

MessagesOfWeight(w) ==
    { m \in ToolMessages \cup PlainMessages
            \cup AssistantCallMessages(w)
            \cup (IF w > 1 THEN AssistantCallMessages(w - 1) ELSE {}) :
        Weight(m) = w }

RECURSIVE TotalWeight(_)
TotalWeight(msgs) ==
    IF msgs = <<>> THEN 0 ELSE Weight(Head(msgs)) + TotalWeight(Tail(msgs))

\* queue.push(callId); pendingCallIdsByName.set(callName, queue)
PushPending(pending, name, id) ==
    [n \in DOMAIN pending \cup {name} |->
        IF n = name
        THEN (IF n \in DOMAIN pending THEN pending[n] ELSE <<>>) \o <<id>>
        ELSE pending[n]]

\* The parts and the queue after the loop over msg.tool_calls has handled the
\* first k calls, st being the translator's state before the message.
RECURSIVE CallsLoop(_, _, _)
CallsLoop(st, msg, k) ==
    IF k = 0
    THEN [parts |-> IF msg.content = "text"
                    THEN <<[kind |-> "text", id |-> AbsentId, name |-> NoName]>>
                    ELSE <<>>,
          pending |-> st.pending, uuid |-> st.uuid]
    ELSE LET prev == CallsLoop(st, msg, k - 1)
             call == msg.tool_calls[k]
             synth == call.id = AbsentId
             callId == IF synth THEN SynthId(prev.uuid + 1) ELSE call.id
             callName == IF call.name = NoName THEN "unknown" ELSE call.name
         IN  [parts |-> Append(prev.parts,
                               [kind |-> "functionCall", id |-> callId,
                                name |-> callName]),
              pending |-> PushPending(prev.pending, callName, callId),
              uuid |-> IF synth THEN prev.uuid + 1 ELSE prev.uuid]

\* A variant that takes the newest pending id (queue.pop()) instead of the
\* oldest.
MatchedIdNewest(pending, msg, toolName) ==
    IF msg.tool_call_id # AbsentId THEN msg.tool_call_id
    ELSE IF toolName \in DOMAIN pending /\ Len(pending[toolName]) > 0
    THEN pending[toolName][Len(pending[toolName])]
    ELSE AbsentId

\* msg.tool_call_id || (queue && queue.length > 0 ? queue.shift() : undefined)
MatchedId(pending, msg, toolName) ==
    IF msg.tool_call_id # AbsentId THEN msg.tool_call_id
    ELSE IF toolName \in DOMAIN pending /\ Len(pending[toolName]) > 0
    THEN Head(pending[toolName])
    ELSE AbsentId

\* The queue after that line: shift() runs only when tool_call_id is missing.
PendingAfterTool(pending, msg, toolName) ==
    IF /\ msg.tool_call_id = AbsentId
       /\ toolName \in DOMAIN pending
       /\ Len(pending[toolName]) > 0
    THEN [pending EXCEPT ![toolName] = Tail(@)]
    ELSE pending

\* One iteration of `for (const msg of messages)`; k is the message's index,
\* kept with the entry it produces.
TranslateMessage(st, msg, k) ==
    IF msg.role = "system"
    THEN [st EXCEPT !.systemInstruction = msg.content]
    ELSE IF msg.role = "assistant" /\ Len(msg.tool_calls) > 0
    THEN LET r == CallsLoop(st, msg, Len(msg.tool_calls))
         IN  [st EXCEPT !.contents = Append(@, [role |-> "model", parts |-> r.parts,
                                                from |-> k]),
                        !.pending = r.pending,
                        !.uuid = r.uuid]
    ELSE IF msg.role = "tool"
    THEN LET toolName == IF msg.name = NoName THEN "unknown" ELSE msg.name
             matchedId == MatchedId(st.pending, msg, toolName)
         IN  [st EXCEPT !.contents =
                            Append(@, [role |-> "user",
                                       parts |-> <<[kind |-> "functionResponse",
                                                    id |-> IF matchedId = AbsentId
                                                           THEN UnknownId
                                                           ELSE matchedId,
                                                    name |-> toolName]>>,
                                       from |-> k]),
                        !.pending = PendingAfterTool(st.pending, msg, toolName)]
    ELSE [st EXCEPT !.contents =
                       Append(@, [role |-> IF msg.role = "assistant"
                                           THEN "model" ELSE "user",
                                  parts |-> <<[kind |-> "text", id |-> AbsentId,
                                               name |-> NoName]>>,
                                  from |-> k])]

XlateFrame == UNCHANGED <<clientVars, streamVars, authVars, handlerVars>>

\* toGeminiFormat is entered: nothing translated yet.
InitTranslateCall ==
    /\ messages = <<>>
    /\ mpos = 0
    /\ contents = <<>>
    /\ systemInstruction = "undefined"
    /\ pendingCallIdsByName = <<>>
    /\ uuidCounter = 0

\* The loop takes the next message of the list, msg.  The list is any list
\* within the budget, so after each iteration the state is what
\* toGeminiFormat makes of the messages taken so far.
ProcessMessage(msg) ==
    /\ TotalWeight(messages) + Weight(msg) <= MaxItems
    /\ LET r == TranslateMessage([systemInstruction |-> systemInstruction,
                                  contents |-> contents,
                                  pending |-> pendingCallIdsByName,
                                  uuid |-> uuidCounter], msg, mpos + 1)
       IN  /\ contents' = r.contents
           /\ systemInstruction' = r.systemInstruction
           /\ pendingCallIdsByName' = r.pending
           /\ uuidCounter' = r.uuid
    /\ messages' = Append(messages, msg)
    /\ mpos' = mpos + 1
    /\ XlateFrame

\* The messages the budget still allows after those taken.
MessagesWithinBudget ==
    UNION { MessagesOfWeight(w) : w \in 1..(MaxItems - TotalWeight(messages)) }

NextTranslate == \E msg \in MessagesWithinBudget : ProcessMessage(msg)

(***************************************************************************)
(*                 STREAM TRANSFORMER AND SSE RE-FRAMING                   *)
(*                                                                         *)
(* The upstream body is text; the model keeps it as a sequence of tokens:  *)
(* the newline, the "data:" prefix, and what follows the prefix on a line  *)
(* (a JSON frame with its parts, a JSON array holding one frame, a JSON    *)
(* value without parts, the [DONE] sentinel, text that is not JSON).  The  *)
(* alphabet has no white space, so trim() changes nothing.  A read chunk   *)
(* may end anywhere between two tokens.                                    *)
(***************************************************************************)
\* The most parts all frames of one upstream body hold together.
MaxParts == 3
\* The most parts one frame holds.
MaxFrameParts == 2

\* part.text non-empty; part.text with thought === true; part.text === '';
\* part.functionCall
PartKinds == {"text", "thought", "empty", "functionCall"}

FramesOfLen(n) == [1..n -> PartKinds]

Tok(t, parts) == [t |-> t, parts |-> parts]
NL == Tok("nl", <<>>)
DataPrefix == Tok("data:", <<>>)
\* jsonText values that carry no parts
PlainPayloads == {Tok("noparts", <<>>), Tok("[DONE]", <<>>), Tok("garbage", <<>>)}
\* jsonText values whose frame has w parts
FramePayloads(w) ==
    {Tok(t, f) : t \in {"json", "array"}, f \in FramesOfLen(w)}

\* The parts the frames taken up so far hold, with those waiting in a line.
RECURSIVE PartsIn(_)
PartsIn(sq) == IF sq = <<>> THEN 0 ELSE Len(Head(sq)) + PartsIn(Tail(sq))

PartsUsed == PartsIn(frames) + PartsIn([q \in 1..Len(buffer) |-> buffer[q].parts])

PayloadsWithinBudget ==
    PlainPayloads \cup
    UNION { FramePayloads(w) :
              w \in 1..(IF MaxParts - PartsUsed < MaxFrameParts
                        THEN MaxParts - PartsUsed ELSE MaxFrameParts) }

\* controller.enqueue(encoder.encode(JSON.stringify(data) + '\n')): the chunk
\* is kept as the record of what it says; `frame` and `pos` name the part it
\* was made for.
ContentChunk(frame, pos) ==
    [kind |-> "content", finish_reason |-> "null", index |-> 0,
     frame |-> frame, pos |-> pos]
\* A variant of the tool-call chunk that takes the position of the part for
\* its index.
ToolCallChunkAtPosition(frame, pos, index) ==
    [kind |-> "tool_calls", finish_reason |-> "null", index |-> pos,
     frame |-> frame, pos |-> pos]
ToolCallChunk(frame, pos, index) ==
    [kind |-> "tool_calls", finish_reason |-> "null", index |-> index,
     frame |-> frame, pos |-> pos]
StopChunk ==
    [kind |-> "empty", finish_reason |-> "stop", index |-> 0, frame |-> 0, pos |-> 0]
ErrorChunk ==
    [kind |-> "error", finish_reason |-> "stop", index |-> 0, frame |-> 0, pos |-> 0]

\* A variant that lets a thought part through whatever ENV.keepThinking is.
emitsTextAlways(part) == part = "text" \/ part = "thought"

\* part.text is truthy and the part is not a thought to be dropped:
\* if (part.text) { if (part.thought === true && !keepThinking) continue; ...
emitsText(part) == part = "text" \/ (part = "thought" /\ keepThinking)

\* A variant of the duplicate test that never finds the position recorded.
emittedNever(c, pos) == FALSE

\* ctx.emittedFunctionCalls.has(i)
emittedHas(c, pos) == pos \in c.emittedFunctionCalls

\* The loop `for (let i = 0; i < parts.length; i++)` after its first n
\* iterations; st holds ctx and out, k is the number of the frame.
RECURSIVE PartsLoop(_, _, _, _)
PartsLoop(st, parts, k, n) ==
    IF n = 0 THEN st
    ELSE LET prev == PartsLoop(st, parts, k, n - 1)
             pos == n - 1
             part == parts[n]
         IN  IF emitsText(part)
             THEN [prev EXCEPT !.out = Append(@, ContentChunk(k, pos))]
             ELSE IF part = "functionCall" /\ ~emittedHas(prev.ctx, pos)
             THEN [prev EXCEPT
                     !.out = Append(@, ToolCallChunk(k, pos, prev.ctx.toolCallIndex)),
                     !.ctx = [toolCallIndex |-> prev.ctx.toolCallIndex + 1,
                              emittedFunctionCalls |->
                                  prev.ctx.emittedFunctionCalls \cup {pos}]]
             ELSE prev

\* A variant that puts the chunks of a frame before those emitted earlier.
processGeminiChunkFirst(st, parts) ==
    LET k == Len(st.frames) + 1
        looped == PartsLoop([st EXCEPT !.out = <<>>], parts, k, Len(parts))
    IN  [looped EXCEPT !.frames = Append(@, parts), !.out = @ \o st.out]

processGeminiChunk(st, parts) ==
    LET k == Len(st.frames) + 1
        looped == PartsLoop(st, parts, k, Len(parts))
    IN  [looped EXCEPT !.frames = Append(@, parts)]

\* JSON.parse(jsonText) gives an object with candidates[0].content.parts
HasParts(tok) == tok.t = "json"

processLine(st, line) ==
    IF line = <<>> \/ Head(line) # DataPrefix THEN st
    ELSE LET jsonText == Tail(line)
         IN  IF jsonText = <<>> \/ jsonText = <<Tok("[DONE]", <<>>)>> THEN st
             ELSE IF Len(jsonText) = 1 /\ HasParts(jsonText[1])
             THEN processGeminiChunk(st, jsonText[1].parts)
             ELSE st

\* for (const line of lines) processLine(line.trim(), ...)
RECURSIVE LinesLoop(_, _)
LinesLoop(st, lines) ==
    IF lines = <<>> THEN st
    ELSE LinesLoop(processLine(st, Head(lines)), Tail(lines))

\* text.split('\n'): the pieces between the newlines, the last one included.
RECURSIVE Split(_)
Split(text) ==
    IF \A q \in 1..Len(text) : text[q] # NL THEN <<text>>
    ELSE LET first == CHOOSE q \in 1..Len(text) :
                          /\ text[q] = NL
                          /\ \A r \in 1..(q - 1) : text[r] # NL
         IN  <<SubSeq(text, 1, first - 1)>> \o
             Split(SubSeq(text, first + 1, Len(text)))

\* What is done with the buffer once the body is read to its end.
Remainder(st, rest) ==
    IF rest = <<>> THEN st
    ELSE IF Head(rest) = DataPrefix THEN processLine(st, rest)
    ELSE IF Len(rest) = 1 /\ rest[1].t \in {"json", "array"}
    THEN processGeminiChunk(st, rest[1].parts)
    ELSE st

TransformerState == [ctx |-> ctx, out |-> out, frames |-> frames]

StreamFrame == UNCHANGED <<clientVars, xlateVars, authVars, handlerVars>>

\* The pieces of a line the body may send: nothing, the prefix, the prefix
\* and a jsonText, or a jsonText without prefix.
NextTokens(partial) ==
    IF partial = <<>> THEN {DataPrefix} \cup PayloadsWithinBudget
    ELSE IF partial = <<DataPrefix>> THEN PayloadsWithinBudget
    ELSE {}

\* The chunks reader.read() may give next: one token, the end of the line in
\* the buffer with the start of the next one, or a whole frame with the empty
\* line after it.
ChunksNow ==
    {<<t>> : t \in NextTokens(buffer) \cup {NL}}
    \cup {<<NL, NL>>, <<NL, DataPrefix>>}
    \cup (IF buffer = <<>>
          THEN {<<DataPrefix, pl, NL, NL>> : pl \in PayloadsWithinBudget}
          ELSE {})

InitStreamCall ==
    /\ keepThinking \in BOOLEAN
    /\ frames = <<>>
    /\ buffer = <<>>
    /\ ctx = [toolCallIndex |-> 0, emittedFunctionCalls |-> {}]
    /\ out = <<>>
    /\ tState = "reading"
    /\ ssePos = 0
    /\ sseOut = <<>>
    /\ sseState = "reading"

\* A variant of readChunk that keeps no partial line: the piece after the
\* last newline is processed with the lines before it.
readChunkWhole(chunk) ==
    /\ tState = "reading"
    /\ LET st == LinesLoop(TransformerState, Split(buffer \o chunk))
       IN  /\ buffer' = <<>>
           /\ ctx' = st.ctx
           /\ out' = st.out
           /\ frames' = st.frames
    /\ UNCHANGED <<keepThinking, tState, ssePos, sseOut, sseState>>

\* One turn of the while loop with { done: false, value: chunk }:
\* buffer += chunk; lines = buffer.split('\n'); buffer = lines.pop();
\* processLine for each line.
readChunk(chunk) ==
    /\ tState = "reading"
    /\ LET lines == Split(buffer \o chunk)
           st == LinesLoop(TransformerState, SubSeq(lines, 1, Len(lines) - 1))
       IN  /\ buffer' = lines[Len(lines)]
           /\ ctx' = st.ctx
           /\ out' = st.out
           /\ frames' = st.frames
    /\ UNCHANGED <<keepThinking, tState, ssePos, sseOut, sseState>>

\* reader.read() gives { done: false, value: chunk }.
Read(chunk) == readChunk(chunk) /\ StreamFrame

\* The code after the while loop: the rest of the buffer, the stop chunk,
\* controller.close().
readDone ==
    /\ tState = "reading"
    /\ LET st == Remainder(TransformerState, buffer)
       IN  /\ ctx' = st.ctx
           /\ out' = Append(st.out, StopChunk)
           /\ frames' = st.frames
    /\ tState' = "closed"
    /\ UNCHANGED <<keepThinking, buffer, ssePos, sseOut, sseState>>

\* reader.read() gives { done: true }.
ReadDone == readDone /\ StreamFrame

\* A variant of the error path that lets the empty stop chunk follow the
\* error chunk.
ReadErrorThenStop ==
    /\ tState = "reading"
    /\ out' = out \o <<ErrorChunk, StopChunk>>
    /\ tState' = "closed"
    /\ UNCHANGED <<keepThinking, frames, buffer, ctx, ssePos, sseOut, sseState>>
    /\ StreamFrame

\* A variant of the error path that forgets what was emitted before.
ReadErrorAlone ==
    /\ tState = "reading"
    /\ out' = <<ErrorChunk>>
    /\ tState' = "closed"
    /\ UNCHANGED <<keepThinking, frames, buffer, ctx, ssePos, sseOut, sseState>>
    /\ StreamFrame

\* reader.read() rejects.
ReadError ==
    /\ tState = "reading"
    /\ out' = Append(out, ErrorChunk)
    /\ tState' = "closed"
    /\ UNCHANGED <<keepThinking, frames, buffer, ctx, ssePos, sseOut, sseState>>
    /\ StreamFrame

DataFrame(chunk) == [frame |-> "data", chunk |-> chunk]
DoneFrame == [frame |-> "[DONE]", chunk |-> StopChunk]

\* streamResponse reads the next chunk of the transformer's stream.  A chunk
\* is one whole line, so the line buffer of streamResponse is empty between
\* reads; the line parses and goes out as one `data:` frame.  Once the
\* client has cancelled, controller.enqueue throws and the frame is skipped.
SseRead ==
    /\ sseState \in {"reading", "cancelled"}
    /\ ssePos < Len(out)
    /\ ssePos' = ssePos + 1
    /\ sseOut' = IF sseState = "reading"
                 THEN Append(sseOut, DataFrame(out[ssePos + 1]))
                 ELSE sseOut
    /\ UNCHANGED <<keepThinking, frames, buffer, ctx, out, tState, sseState>>
    /\ StreamFrame

\* A variant of the end of streamResponse that closes without the sentinel.
SseDoneSilent ==
    /\ sseState \in {"reading", "cancelled"}
    /\ ssePos = Len(out)
    /\ tState = "closed"
    /\ sseState' = IF sseState = "reading" THEN "closed" ELSE "rejected"
    /\ UNCHANGED <<keepThinking, frames, buffer, ctx, out, tState, ssePos, sseOut>>
    /\ StreamFrame

\* streamResponse reads the end of the transformer's stream: the sentinel
\* goes out and the client stream is closed.  Once the client has cancelled,
\* enqueue and close both throw and start() ends rejected.
SseDone ==
    /\ sseState \in {"reading", "cancelled"}
    /\ ssePos = Len(out)
    /\ tState = "closed"
    /\ sseOut' = IF sseState = "reading" THEN Append(sseOut, DoneFrame) ELSE sseOut
    /\ sseState' = IF sseState = "reading" THEN "closed" ELSE "rejected"
    /\ UNCHANGED <<keepThinking, frames, buffer, ctx, out, tState, ssePos>>
    /\ StreamFrame

\* The client goes away and the runtime cancels the response stream.
\* sseStream has no cancel callback: nothing else is told.
Disconnect ==
    /\ sseState = "reading"
    /\ sseState' = "cancelled"
    /\ UNCHANGED <<keepThinking, frames, buffer, ctx, out, tState, ssePos, sseOut>>
    /\ StreamFrame

NextStream ==
    \/ \E chunk \in ChunksNow : Read(chunk)
    \/ ReadDone
    \/ ReadError
    \/ SseRead
    \/ SseDone
    \/ Disconnect

\* The most lines one upstream body holds.
MaxBodyLines == 3

FunctionCallFrame == <<"functionCall">>
TextThenCallFrame == <<"text", "functionCall">>

\* The lines of a body: empty, a data line with a frame, the sentinel, a data
\* line that does not parse, the bare prefix, and JSON without the prefix.
BodyLines ==
    { <<>>,
      <<DataPrefix, Tok("json", FunctionCallFrame)>>,
      <<DataPrefix, Tok("json", TextThenCallFrame)>>,
      <<DataPrefix, Tok("[DONE]", <<>>)>>,
      <<DataPrefix, Tok("garbage", <<>>)>>,
      <<DataPrefix>>,
      <<Tok("json", FunctionCallFrame)>>,
      <<Tok("array", TextThenCallFrame)>> }

\* The bodies of 1..n lines; the last line may lack its newline.
RECURSIVE BodiesOf(_)
BodiesOf(n) ==
    IF n = 0 THEN {<<>>}
    ELSE { line \o rest :
              line \in BodyLines,
              rest \in {<<>>} \cup {<<NL>> \o b : b \in BodiesOf(n - 1)} }

InitBodyCall ==
    /\ keepThinking \in BOOLEAN
    /\ frames = <<>>
    /\ buffer = <<>>
    /\ ctx = [toolCallIndex |-> 0, emittedFunctionCalls |-> {}]
    /\ out = <<>>
    /\ tState = "reading"
    /\ ssePos = 0
    /\ sseOut = <<>>
    /\ sseState = "reading"
    /\ unread \in BodiesOf(MaxBodyLines)
    /\ received = <<>>

BodyFrame ==
    UNCHANGED <<clientVars, xlateVars, authVars, nameVars, orchVars, schemaVars>>

\* reader.read() gives the next n tokens of the body as one chunk.
ReadPiece(n) ==
    /\ n \in 1..Len(unread)
    /\ readChunk(SubSeq(unread, 1, n))
    /\ received' = received \o SubSeq(unread, 1, n)
    /\ unread' = SubSeq(unread, n + 1, Len(unread))
    /\ BodyFrame

\* The body is given out: reader.read() gives { done: true }.
ReadEnd ==
    /\ unread = <<>>
    /\ readDone
    /\ UNCHANGED bodyVars
    /\ BodyFrame

NextBody ==
    \/ \E n \in 1..Len(unread) : ReadPiece(n)
    \/ ReadEnd

(***************************************************************************)
(*                           CREDENTIAL CACHE                              *)
(*                                                                         *)
(* getAccessToken has no await: each call runs to the return of its        *)
(* promise in one step.  refreshAccessToken touches the cache only after   *)
(* its last await, so the answer of the token endpoint and what follows it *)
(* is one step too; the .finally callback runs as a later step.  The clock *)
(* counts in units of the 60 s safety margin.                              *)
(***************************************************************************)
\* The most getAccessToken calls of one run.
MaxCalls == 3
\* The latest time the clock reaches.
MaxTime == 2
\* 1000 in the source.  The code reads it in `size <= MAX_CACHE_SIZE` and in
\* `size - MAX_CACHE_SIZE` only, so the model runs with a small capacity.
MAX_CACHE_SIZE == 2
\* 60_000 ms, one unit of the clock
SafetyMargin == 1

\* the refresh tokens the callers present
RefreshTokens == {"a"}
NoToken == ""
\* data.expires_in * 1000: the margin itself (expired on arrival) or more
ExpiresIn == {SafetyMargin, SafetyMargin + 1}
\* the answers of the token endpoint
TokenStatuses == {200, 400, 401, 429, 500}

ZeroMetrics ==
    [hits |-> 0, misses |-> 0, refreshes |-> 0,
     evictedByCleanup |-> 0, evictedByLRU |-> 0]

\* tokenCache.get(key): the place of the entry, 0 when there is none
CacheIndex(cache, key) ==
    IF \E q \in 1..Len(cache) : cache[q].key = key
    THEN CHOOSE q \in 1..Len(cache) : cache[q].key = key
    ELSE 0

\* tokenCache.delete(key)
CacheDelete(cache, key) == SelectSeq(cache, LAMBDA e : e.key # key)

\* refreshPromises.set(key, p) and refreshPromises.delete(key)
MapSet(map, key, val) ==
    [k \in DOMAIN map \cup {key} |-> IF k = key THEN val ELSE map[k]]
MapDelete(map, key) == [k \in DOMAIN map \ {key} |-> map[k]]

\* A variant that evicts in insertion order, whatever the access times.
FirstIndex(cache) == 1

\* The first entry, in insertion order, among those accessed longest ago:
\* the head of the entries sorted by lastAccessedAt (the sort is stable).
OldestIndex(cache) ==
    CHOOSE q \in 1..Len(cache) :
        /\ \A r \in 1..Len(cache) : cache[q].lastAccessedAt <= cache[r].lastAccessedAt
        /\ \A r \in 1..(q - 1) : cache[r].lastAccessedAt > cache[q].lastAccessedAt

RemoveAt(sq, q) == SubSeq(sq, 1, q - 1) \o SubSeq(sq, q + 1, Len(sq))

\* entries.slice(0, n) of the sorted entries, removed one by one
RECURSIVE RemoveOldest(_, _)
RemoveOldest(cache, n) ==
    IF n = 0 THEN cache
    ELSE RemoveOldest(RemoveAt(cache, OldestIndex(cache)), n - 1)

CacheKeys(cache) == {cache[q].key : q \in 1..Len(cache)}

\* evictLRUIfNeeded(), on the cache, the fingerprints and the metrics
evictLRUIfNeeded(st) ==
    IF Len(st.cache) <= MAX_CACHE_SIZE THEN st
    ELSE LET kept == RemoveOldest(st.cache, Len(st.cache) - MAX_CACHE_SIZE)
             gone == CacheKeys(st.cache) \ CacheKeys(kept)
         IN  [cache |-> kept,
              fingerprints |-> st.fingerprints \ gone,
              metrics |-> [st.metrics EXCEPT !.evictedByLRU = @ + Cardinality(gone)]]

\* A variant of the sweep that also removes the entries expiring right now.
cleanupUpToNow(st) ==
    LET kept == SelectSeq(st.cache, LAMBDA e : ~(e.expiresAt <= now))
        gone == CacheKeys(st.cache) \ CacheKeys(kept)
    IN  [cache |-> kept,
         fingerprints |-> st.fingerprints \ gone,
         metrics |-> [st.metrics EXCEPT !.evictedByCleanup = @ + Cardinality(gone)]]

\* A variant of the sweep that leaves the fingerprints alone.
cleanupKeepsFingerprints(st) ==
    LET kept == SelectSeq(st.cache, LAMBDA e : ~(e.expiresAt < now))
        gone == CacheKeys(st.cache) \ CacheKeys(kept)
    IN  [cache |-> kept,
         fingerprints |-> st.fingerprints,
         metrics |-> [st.metrics EXCEPT !.evictedByCleanup = @ + Cardinality(gone)]]

\* cleanupExpiredEntries()
cleanupExpiredEntries(st) ==
    LET kept == SelectSeq(st.cache, LAMBDA e : ~(e.expiresAt < now))
        gone == CacheKeys(st.cache) \ CacheKeys(kept)
    IN  [cache |-> kept,
         fingerprints |-> st.fingerprints \ gone,
         metrics |-> [st.metrics EXCEPT !.evictedByCleanup = @ + Cardinality(gone)]]

CacheState == [cache |-> tokenCache, fingerprints |-> fingerprintCache,
               metrics |-> cacheMetrics]

\* The refreshes for token t whose .finally callback has not run yet.
Unfinished(t) ==
    {p \in 1..Len(promises) : promises[p].token = t /\ promises[p].state # "finished"}

Pending == [kind |-> "unread", value |-> 0]
AccessToken(v) == [kind |-> "token", value |-> v]
\* A variant that takes a 429 for an invalid token as well.
InvalidTokenOr429(status) == status = 400 \/ status = 401 \/ status = 429

\* if (status === 400 || status === 401)
InvalidTokenStatus(status) == status = 400 \/ status = 401

\* OAuthError types by status; the value is the statusCode of the error
ErrorType(status) ==
    IF InvalidTokenStatus(status) THEN "invalid_token"
    ELSE IF status = 429 THEN "rate_limit"
    ELSE "network_error"
OAuthError(status) == [kind |-> ErrorType(status), value |-> status]

\* A refresh just started for token t by one caller.  `cleared` notes that
\* clearTokenCache has run while a refresh for t was unfinished, and stays
\* with the refreshes for t until none is unfinished.
NewPromise(t) ==
    [token |-> t, state |-> "fetching", result |-> Pending, callers |-> 1,
     cleared |-> \E p \in Unfinished(t) : promises[p].cleared]

\* What is kept of a refresh once its callers have its outcome.
FinishedPromise(t) ==
    [token |-> t, state |-> "finished", result |-> Pending, callers |-> 0,
     cleared |-> FALSE]

AuthFrame == UNCHANGED <<clientVars, xlateVars, streamVars, handlerVars>>

InitAuthCall ==
    /\ tokenCache = <<>>
    /\ refreshPromises = <<>>
    /\ cacheMetrics = ZeroMetrics
    /\ cleanupTimer = FALSE
    /\ intervals = 0
    /\ lastCall = "none"
    /\ strays = 0
    /\ fingerprintCache = {}
    /\ now = 0
    /\ promises = <<>>
    /\ calls = 0

\* startCleanupTimer(): setInterval unless the handle is set
startCleanupTimer ==
    IF cleanupTimer THEN UNCHANGED <<cleanupTimer, intervals>>
    ELSE cleanupTimer' = TRUE /\ intervals' = intervals + 1

\* A variant of stopCleanupTimer that drops the handle without clearInterval.
stopDropsHandle ==
    cleanupTimer' = FALSE /\ UNCHANGED intervals

\* stopCleanupTimer(): clearInterval and forget the handle, if it is set
stopCleanupTimer ==
    IF cleanupTimer THEN cleanupTimer' = FALSE /\ intervals' = intervals - 1
    ELSE UNCHANGED <<cleanupTimer, intervals>>

\* A variant that serves an entry only while more than a margin is left.
CacheHitPastMargin(cache, at) ==
    at # 0 /\ cache[at].expiresAt > now + SafetyMargin

\* cached && cached.expiresAt > Date.now(), at being the entry's place
CacheHit(cache, at) == at # 0 /\ cache[at].expiresAt > now

\* existingPromise is looked up in a map that a variant leaves empty
existingNone(map, t) == 0

\* refreshPromises.get(refreshToken), 0 for undefined
existingPromise(map, t) == IF t \in DOMAIN map THEN map[t] ELSE 0

\* A variant that counts a call without a servable entry among the hits.
countMissAsHit(metrics) == [metrics EXCEPT !.hits = @ + 1]

\* cacheMetrics.misses++
countMiss(metrics) == [metrics EXCEPT !.misses = @ + 1]

\* getAccessToken(t), up to the return of its promise: what it does to the
\* cache, the records and the metrics.
getAccessToken(t) ==
    /\ IF t = NoToken
       THEN \* throw new Error('No refresh token provided')
            UNCHANGED <<tokenCache, refreshPromises, cacheMetrics, cleanupTimer, intervals,
                        fingerprintCache, promises, calls>>
       ELSE LET at == CacheIndex(tokenCache, t)
                existing == existingPromise(refreshPromises, t)
                started == Len(promises) + 1
            IN  /\ IF ~cleanupTimer THEN startCleanupTimer
                   ELSE UNCHANGED <<cleanupTimer, intervals>>
                /\ calls' = calls + 1
                /\ IF CacheHit(tokenCache, at)
                   THEN /\ tokenCache' = [tokenCache EXCEPT ![at].lastAccessedAt = now]
                        /\ cacheMetrics' = [cacheMetrics EXCEPT !.hits = @ + 1]
                        /\ UNCHANGED <<refreshPromises, fingerprintCache, promises>>
                   ELSE IF existing # 0
                   THEN /\ cacheMetrics' = countMiss(cacheMetrics)
                        /\ promises' = [promises EXCEPT ![existing].callers = @ + 1]
                        /\ UNCHANGED <<tokenCache, refreshPromises, fingerprintCache>>
                   ELSE LET st == evictLRUIfNeeded(
                                    [CacheState EXCEPT !.metrics = countMiss(@)])
                        IN  /\ promises' = Append(promises, NewPromise(t))
                            /\ refreshPromises' = MapSet(refreshPromises, t, started)
                            /\ tokenCache' = st.cache
                            /\ fingerprintCache' = st.fingerprints
                            /\ cacheMetrics' = st.metrics
    /\ lastCall' = "getAccessToken"
    /\ UNCHANGED strays
    /\ UNCHANGED now

\* A call of getAccessToken(t) from outside the request handler.
GetAccessToken(t) ==
    /\ calls < MaxCalls
    /\ getAccessToken(t)
    /\ AuthFrame

\* tokenCache.set(refreshToken, {accessToken, expiresAt, lastAccessedAt})
newEntry(t, access_token, expiresAt) ==
    [key |-> t, accessToken |-> access_token, expiresAt |-> expiresAt,
     lastAccessedAt |-> now, projectId |-> "undefined"]

\* A variant that writes a new record over the cached one.
replaceCached(cached, access_token, expiresAt) ==
    newEntry(cached.key, access_token, expiresAt)

\* if (cached): the three fields are assigned in the record the cache holds
updateCached(cached, access_token, expiresAt) ==
    [cached EXCEPT !.accessToken = access_token, !.expiresAt = expiresAt,
                   !.lastAccessedAt = now]

\* The token endpoint answers the POST of refresh p and refreshAccessToken
\* runs to its end.  The access token of a 2xx answer is a new one.
Respond(p, status, expires_in) ==
    /\ promises[p].state = "fetching"
    /\ LET t == promises[p].token
           at == CacheIndex(tokenCache, t)
       IN  IF status = 200
           THEN /\ tokenCache' =
                     IF at # 0
                     THEN [tokenCache EXCEPT ![at] =
                              updateCached(@, p, now + expires_in - SafetyMargin)]
                     ELSE Append(tokenCache,
                                 newEntry(t, p, now + expires_in - SafetyMargin))
                /\ cacheMetrics' = [cacheMetrics EXCEPT !.refreshes = @ + 1]
                /\ promises' = [promises EXCEPT ![p].state = "settled",
                                                ![p].result = AccessToken(p)]
                /\ UNCHANGED fingerprintCache
           ELSE /\ promises' = [promises EXCEPT ![p].state = "settled",
                                                ![p].result = OAuthError(status)]
                /\ IF InvalidTokenStatus(status)
                   THEN /\ tokenCache' = CacheDelete(tokenCache, t)
                        /\ fingerprintCache' = fingerprintCache \ {t}
                   ELSE UNCHANGED <<tokenCache, fingerprintCache>>
                /\ UNCHANGED cacheMetrics
    /\ UNCHANGED <<refreshPromises, cleanupTimer, intervals, lastCall, strays, now, calls>>
    /\ AuthFrame

\* A variant where the record is deleted by .then, after a success only.
ThenOnly(p) ==
    /\ promises[p].state = "settled"
    /\ refreshPromises' = IF promises[p].result.kind = "token"
                          THEN MapDelete(refreshPromises, promises[p].token)
                          ELSE refreshPromises
    /\ promises' = [promises EXCEPT ![p] = FinishedPromise(promises[p].token)]
    /\ UNCHANGED <<tokenCache, cacheMetrics, cleanupTimer, intervals, lastCall, strays, fingerprintCache, now,
                   calls>>
    /\ AuthFrame

\* The .finally callback of refresh p: the record of its token is deleted,
\* and the promise its callers hold settles with the outcome of the refresh.
finallyCallback(p) ==
    /\ promises[p].state = "settled"
    /\ refreshPromises' = MapDelete(refreshPromises, promises[p].token)
    /\ promises' = [promises EXCEPT ![p] = FinishedPromise(promises[p].token)]
    /\ UNCHANGED <<tokenCache, cacheMetrics, cleanupTimer, intervals, lastCall, strays, fingerprintCache, now,
                   calls>>

\* The callback runs and the callers are outside the request handler.
Finally(p) ==
    /\ finallyCallback(p)
    /\ AuthFrame

\* The interval set by startCleanupTimer fires.
CleanupSweep ==
    /\ intervals > 0
    /\ LET st == cleanupExpiredEntries(CacheState)
       IN  /\ tokenCache' = st.cache
           /\ fingerprintCache' = st.fingerprints
           /\ cacheMetrics' = st.metrics
    /\ UNCHANGED <<refreshPromises, cleanupTimer, intervals, lastCall, strays, now, promises, calls>>
    /\ AuthFrame

\* Time passes.
Tick ==
    /\ now < MaxTime
    /\ now' = now + 1
    /\ UNCHANGED <<tokenCache, refreshPromises, cacheMetrics, cleanupTimer, intervals, lastCall, strays,
                   fingerprintCache, promises, calls>>
    /\ AuthFrame

\* clearTokenCache().  `cleared` notes the refreshes it found unfinished.
clearTokenCache ==
    /\ tokenCache' = <<>>
    /\ refreshPromises' = <<>>
    /\ fingerprintCache' = {}
    /\ cacheMetrics' = ZeroMetrics
    /\ stopCleanupTimer
    /\ lastCall' = "clearTokenCache"
    /\ promises' = [p \in 1..Len(promises) |->
                       IF promises[p].state # "finished"
                       THEN [promises[p] EXCEPT !.cleared = TRUE]
                       ELSE promises[p]]
    /\ UNCHANGED <<now, calls>>

ClearTokenCache ==
    /\ clearTokenCache
    /\ UNCHANGED strays
    /\ AuthFrame

\* clearTokenCache(), with the number of refreshes it finds in flight noted.
ClearCounted ==
    /\ clearTokenCache
    /\ strays' = Cardinality({p \in 1..Len(promises) :
                                  promises[p].state = "fetching"})
    /\ AuthFrame

\* resetCleanupTimer()
ResetCleanupTimer ==
    /\ stopCleanupTimer
    /\ lastCall' = "resetCleanupTimer"
    /\ UNCHANGED strays
    /\ UNCHANGED <<tokenCache, refreshPromises, cacheMetrics, fingerprintCache,
                   now, promises, calls>>
    /\ AuthFrame

\* getFingerprintHeaders(t) on a token without an entry: one is derived and
\* kept (with an entry the call changes nothing).
GetFingerprintHeaders(t) ==
    /\ t \notin fingerprintCache
    /\ fingerprintCache' = fingerprintCache \cup {t}
    /\ UNCHANGED <<tokenCache, refreshPromises, cacheMetrics, cleanupTimer, intervals, lastCall, strays, now,
                   promises, calls>>
    /\ AuthFrame

NextAuth ==
    \/ \E t \in RefreshTokens \cup {NoToken} : GetAccessToken(t)
    \/ \E p \in 1..Len(promises) :
          \E status \in TokenStatuses, expires_in \in ExpiresIn :
              Respond(p, status, expires_in)
    \/ \E p \in 1..Len(promises) : Finally(p)
    \/ CleanupSweep
    \/ Tick
    \/ ClearTokenCache
    \/ ResetCleanupTimer

\* The same calls and events, where clearTokenCache notes what it leaves in
\* flight.
NextMetrics ==
    \/ \E t \in RefreshTokens \cup {NoToken} : GetAccessToken(t)
    \/ \E p \in 1..Len(promises) :
          \E status \in TokenStatuses, expires_in \in ExpiresIn :
              Respond(p, status, expires_in)
    \/ \E p \in 1..Len(promises) : Finally(p)
    \/ CleanupSweep
    \/ Tick
    \/ ClearCounted
    \/ ResetCleanupTimer

(***************************************************************************)
(* The credential cache when it is full.  The process has served           *)
(* MAX_CACHE_SIZE other refresh tokens before: the cache holds their       *)
(* entries, in insertion order, and callers come with two new tokens.      *)
(***************************************************************************)
\* the refresh token of the k-th entry
OldToken(k) == ToString(k)

\* The first entry is still servable as the clock starts, the others are not.
OldExpiry(k) == IF k = 1 THEN 1 ELSE 0

\* The first entry was read last, after all the others.
OldAccess(k) == IF k = 1 THEN 0 ELSE 0 - 1

FullCache ==
    [k \in 1..MAX_CACHE_SIZE |->
        [key |-> OldToken(k), accessToken |-> 0, expiresAt |-> OldExpiry(k),
         lastAccessedAt |-> OldAccess(k), projectId |-> "undefined"]]

\* the tokens of the callers
NewTokens == {"a", "b"}
\* the tokens whose requests went out with antigravity style
FingerprintedTokens == {OldToken(1), OldToken(2)}
\* the answers of the token endpoint to these callers
CacheStatuses == {200, 400, 429}

InitCacheCall ==
    /\ tokenCache = FullCache
    /\ refreshPromises = <<>>
    /\ cacheMetrics = [ZeroMetrics EXCEPT !.misses = MAX_CACHE_SIZE,
                                          !.refreshes = MAX_CACHE_SIZE]
    /\ cleanupTimer = TRUE
    /\ intervals = 1
    /\ lastCall = "none"
    /\ strays = 0
    /\ fingerprintCache = FingerprintedTokens
    /\ now = 0
    /\ promises = <<>>
    /\ calls = 0

\* The clock stops one unit before MaxTime, and clearTokenCache is called
\* once the callers have made their calls (SpecAuth has it at any moment).
NextCache ==
    \/ \E t \in NewTokens : GetAccessToken(t)
    \/ \E p \in 1..Len(promises) :
          \E status \in CacheStatuses, expires_in \in ExpiresIn :
              Respond(p, status, expires_in)
    \/ \E p \in 1..Len(promises) : Finally(p)
    \/ CleanupSweep
    \/ now < MaxTime - 1 /\ Tick
    \/ \E t \in {"a"} : GetFingerprintHeaders(t)
    \/ calls = MaxCalls /\ ClearTokenCache

(***************************************************************************)
(* Idle values of the other pieces.                                        *)
(***************************************************************************)
XlateIdle ==
    /\ messages = <<>>
    /\ mpos = 0
    /\ contents = <<>>
    /\ systemInstruction = "undefined"
    /\ pendingCallIdsByName = <<>>
    /\ uuidCounter = 0

StreamIdle ==
    /\ keepThinking = FALSE
    /\ frames = <<>>
    /\ buffer = <<>>
    /\ ctx = [toolCallIndex |-> 0, emittedFunctionCalls |-> {}]
    /\ out = <<>>
    /\ tState = "idle"
    /\ ssePos = 0
    /\ sseOut = <<>>
    /\ sseState = "idle"

AuthIdle ==
    /\ tokenCache = <<>>
    /\ refreshPromises = <<>>
    /\ cacheMetrics = ZeroMetrics
    /\ cleanupTimer = FALSE
    /\ intervals = 0
    /\ lastCall = "none"
    /\ strays = 0
    /\ fingerprintCache = {}
    /\ now = 0
    /\ promises = <<>>
    /\ calls = 0

(***************************************************************************)
(*                          MODEL IDENTIFIERS                              *)
(*                                                                         *)
(* normalizeModelForAntigravity and resolveModelForHeaderStyle are pure:   *)
(* a run starts from one identifier and applies them in any order, each    *)
(* to the result of the one before.                                        *)
(***************************************************************************)
\* The most applications of one run.
MaxApplications == 3

Efforts == {"low", "medium", "high", "minimal", "undefined"}

mapReasoningEffortToGemini3Pro(reasoning_effort) ==
    CASE reasoning_effort = "low" -> "low"
      [] reasoning_effort = "medium" -> "low"
      [] reasoning_effort = "high" -> "high"
      [] reasoning_effort = "minimal" -> "low"
      [] OTHER -> "low"

\* lower.startsWith('gemini-3-pro')
StartsWithGemini3Pro(lower) == Len(lower) > 0 /\ lower[1] = "gemini-3-pro"

\* Mutant of normalizeModelForAntigravity: an existing tier suffix is replaced
\* by the suffix of the effort.
normalizeReplacingTier(model, reasoningEffort) ==
    LET lower == toLowerCase(model)
    IN  IF StartsWithGemini3Pro(lower)
        THEN Append(IF EndsWith(lower, TierSegments)
                    THEN SubSeq(model, 1, Len(model) - 1) ELSE model,
                    mapReasoningEffortToGemini3Pro(reasoningEffort))
        ELSE model

normalizeModelForAntigravity(model, reasoningEffort) ==
    LET lower == toLowerCase(model)
    IN  IF StartsWithGemini3Pro(lower) /\ ~EndsWith(lower, TierSegments)
        THEN Append(model, mapReasoningEffortToGemini3Pro(reasoningEffort))
        ELSE model

\* The identifiers a run can start from.
NameInputs ==
    { <<"gemini-3-pro">>, <<"gemini-3-pro", "low">>, <<"gemini-3-pro", "medium">>,
      <<"gemini-3-pro", "high">>, <<"gemini-3-pro", "minimal">>,
      <<"gemini-3-pro", "preview">>, <<"GEMINI-3-PRO">>, <<"GEMINI-3-PRO", "HIGH">>,
      <<"gemini-3-flash">>, <<"gemini-3-flash", "preview">>,
      <<"gemini-3-flash", "high">>, <<"gemini-2.5-flash">>,
      <<"claude-sonnet-4-5">>, <<"claude-opus-4-5", "thinking", "low">> }

NoApplication == [fn |-> "none", arg |-> "none"]

NamesIdle ==
    /\ modelName = <<>>
    /\ modelArg = <<>>
    /\ applied = NoApplication
    /\ applications = 0

NoRequest ==
    [bearer |-> "", json |-> FALSE, messages |-> "missing", model |-> <<>>,
     reasoning_effort |-> "undefined"]

NoThinkingConfig == [absent |-> TRUE]

OrchIdle ==
    /\ request = NoRequest
    /\ envProjectId = ""
    /\ hpc = "idle"
    /\ awaited = 0
    /\ accessToken = AccessToken(0)
    /\ endpointAsked = 0
    /\ discoveryPosts = 0
    /\ projectId = "undefined"
    /\ thinkingConfig = NoThinkingConfig
    /\ sent = <<>>
    /\ httpStatus = 0

\* JSON values carry their type: a string, number or boolean, an array (a
\* sequence of values) or an object (a function from its keys to values).
\* A description is a string the code builds by concatenation; it is kept as
\* the sequence of its words.
Str(s) == [t |-> "string", v |-> s]
Num(n) == [t |-> "number", v |-> n]
Bool(b) == [t |-> "boolean", v |-> b]
Text(words) == [t |-> "text", v |-> words]
Arr(elements) == [t |-> "array", v |-> elements]
Obj(entries) == [t |-> "object", v |-> entries]

EmptyObject == Obj(<<>>)

SchemaIdle ==
    /\ schemaTree = EmptyObject
    /\ schemaArg = EmptyObject
    /\ schemaAfter = EmptyObject
    /\ cleanedBy = "none"
    /\ cleanings = 0

BodyIdle == unread = <<>> /\ received = <<>>

HandlerIdle == NamesIdle /\ OrchIdle /\ SchemaIdle /\ BodyIdle

NamesFrame ==
    UNCHANGED <<clientVars, xlateVars, streamVars, authVars, orchVars, schemaVars,
                bodyVars>>

InitNamesCall ==
    /\ modelName \in NameInputs
    /\ modelArg = <<>>
    /\ applied = NoApplication
    /\ applications = 0

Normalize(reasoningEffort) ==
    /\ applications < MaxApplications
    /\ modelArg' = modelName
    /\ modelName' = normalizeModelForAntigravity(modelName, reasoningEffort)
    /\ applied' = [fn |-> "normalizeModelForAntigravity", arg |-> reasoningEffort]
    /\ applications' = applications + 1
    /\ NamesFrame

Resolve(st) ==
    /\ applications < MaxApplications
    /\ modelArg' = modelName
    /\ modelName' = resolveModelForHeaderStyle(modelName, st)
    /\ applied' = [fn |-> "resolveModelForHeaderStyle", arg |-> st]
    /\ applications' = applications + 1
    /\ NamesFrame

NextNames ==
    \/ \E e \in Efforts : Normalize(e)
    \/ \E st \in Styles : Resolve(st)

(***************************************************************************)
(*                           REQUEST HANDLER                               *)
(*                                                                         *)
(* chatCompletions serves one request.  It runs without suspending from    *)
(* the arrival of the request to its first await on the credential cache,  *)
(* and from each answer it awaits to the next await.  The translation of   *)
(* the messages is pure and is left out; makeAntigravityRequest is one     *)
(* call with one outcome.                                                  *)
(***************************************************************************)
DEFAULT_THINKING_BUDGET == 16000

REASONING_EFFORT_BUDGETS == [low |-> 8192, medium |-> 16384, high |-> 32768]

OpusSegments == {"claude-opus-4-5"}
Gemini3ProSegments == {"gemini-3-pro"}
Gemini3FlashSegments == {"gemini-3-flash"}

isThinkingCapableModel(model) ==
    LET lower == SegmentsOf(toLowerCase(model))
    IN  \/ "thinking" \in lower
        \/ lower \cap Gemini3Segments # {}
        \/ lower \cap OpusSegments # {}

mapReasoningEffortToGemini3Flash(reasoning_effort) ==
    CASE reasoning_effort = "minimal" -> "minimal"
      [] reasoning_effort = "low" -> "low"
      [] reasoning_effort = "medium" -> "medium"
      [] reasoning_effort = "high" -> "high"
      [] OTHER -> "medium"

mapReasoningEffortToTokenBudget(reasoning_effort) ==
    CASE reasoning_effort = "low" -> REASONING_EFFORT_BUDGETS.low
      [] reasoning_effort = "medium" -> REASONING_EFFORT_BUDGETS.medium
      [] reasoning_effort = "high" -> REASONING_EFFORT_BUDGETS.high
      [] reasoning_effort = "minimal" -> REASONING_EFFORT_BUDGETS.low
      [] OTHER -> DEFAULT_THINKING_BUDGET

\* throw new Error(`Unsupported Gemini 3 model: ${model}`)
Unsupported == [unsupported |-> TRUE]

LevelConfig(level) == [thinkingLevel |-> level, includeThoughts |-> TRUE]
ClaudeConfig(budget) == [include_thoughts |-> TRUE, thinking_budget |-> budget]
BudgetConfig(budget) == [thinkingBudget |-> budget, includeThoughts |-> TRUE]

\* Mutant of ThinkingConfigOf: the Claude test comes before the Gemini 3 test
\* and the last branch sends a level.
ThinkingConfigLevels(model, reasoning_effort) ==
    LET lower == SegmentsOf(toLowerCase(model))
    IN  IF ~isThinkingCapableModel(model) THEN NoThinkingConfig
        ELSE IF isClaudeModel(model)
        THEN ClaudeConfig(mapReasoningEffortToTokenBudget(reasoning_effort))
        ELSE IF lower \cap Gemini3ProSegments # {}
        THEN LevelConfig(mapReasoningEffortToGemini3Pro(reasoning_effort))
        ELSE LevelConfig(mapReasoningEffortToGemini3Flash(reasoning_effort))

\* The thinkingConfig built by lines 129-167, or the error thrown there.
ThinkingConfigOf(model, reasoning_effort) ==
    LET lower == SegmentsOf(toLowerCase(model))
    IN  IF ~isThinkingCapableModel(model) THEN NoThinkingConfig
        ELSE IF lower \cap Gemini3Segments # {}
        THEN IF lower \cap Gemini3ProSegments # {}
             THEN LevelConfig(mapReasoningEffortToGemini3Pro(reasoning_effort))
             ELSE IF lower \cap Gemini3FlashSegments # {}
             THEN LevelConfig(mapReasoningEffortToGemini3Flash(reasoning_effort))
             ELSE Unsupported
        ELSE IF isClaudeModel(model)
        THEN ClaudeConfig(mapReasoningEffortToTokenBudget(reasoning_effort))
        ELSE BudgetConfig(mapReasoningEffortToTokenBudget(reasoning_effort))

\* Mutant of Rejection: the body is parsed before the token is looked at.
RejectionBodyFirst(req) ==
    IF ~req.json THEN 400
    ELSE IF req.messages # "present" THEN 400
    ELSE IF req.bearer = "" THEN 401
    ELSE 0

\* Lines 92-108: the status a request is turned away with, 0 when it is not.
Rejection(req) ==
    IF req.bearer = "" THEN 401
    ELSE IF ~req.json THEN 400
    ELSE IF req.messages # "present" THEN 400
    ELSE 0

\* const model = body.model || 'gemini-3-flash'
ModelOf(req) == IF req.model = <<>> THEN <<"gemini-3-flash">> ELSE req.model

HandlerModels ==
    { <<>>, <<"gemini-3-pro">>, <<"gemini-3-flash">>, <<"gemini-3-ultra">>,
      <<"gemini-2.5-flash">>, <<"gemini-2.5-flash", "thinking">>,
      <<"claude-sonnet-4-5">>, <<"claude-opus-4-5", "thinking">> }

Requests ==
    [bearer : {"", "a"}, json : BOOLEAN,
     messages : {"missing", "empty", "present"},
     model : HandlerModels, reasoning_effort : Efforts]

\* The cache as the request finds it: empty, or with a servable entry for the
\* token of the request, which holds a discovered project or none.
WarmEntry(project) ==
    [key |-> "a", accessToken |-> 1, expiresAt |-> 1, lastAccessedAt |-> 0,
     projectId |-> project]

Projects == {"undefined", "p0"}

\* An entry whose access token has expired.
StaleEntry(project) ==
    [key |-> "a", accessToken |-> 0, expiresAt |-> 0, lastAccessedAt |-> 0,
     projectId |-> project]

StartedPromise(t) ==
    [token |-> t, state |-> "fetching", result |-> Pending, callers |-> 1,
     cleared |-> FALSE]

\* A request arrives at the handler.
RequestArrives ==
    /\ request \in Requests
    /\ envProjectId \in {"", "env-project"}
    /\ hpc = "arrived"
    /\ awaited = 0
    /\ accessToken = AccessToken(0)
    /\ endpointAsked = 0
    /\ discoveryPosts = 0
    /\ projectId = "undefined"
    /\ thinkingConfig = NoThinkingConfig
    /\ sent = <<>>
    /\ httpStatus = 0
    /\ fingerprintCache = {}
    /\ now = 0

InitHandlerCall ==
    /\ RequestArrives
    /\ \/ /\ tokenCache = <<>>
          /\ refreshPromises = <<>>
          /\ cacheMetrics = ZeroMetrics
          /\ cleanupTimer = FALSE
          /\ intervals = 0
          /\ lastCall = "none"
          /\ strays = 0
          /\ promises = <<>>
          /\ calls = 0
       \/ /\ \E project \in Projects : tokenCache = <<WarmEntry(project)>>
          /\ refreshPromises = <<>>
          /\ cacheMetrics = [ZeroMetrics EXCEPT !.misses = 1, !.refreshes = 1]
          /\ cleanupTimer = TRUE
          /\ intervals = 1
          /\ lastCall = "getAccessToken"
          /\ strays = 0
          /\ promises = <<FinishedPromise("a")>>
          /\ calls = 1

\* The request arrives while the access token of the entry has expired and
\* another request has a refresh for it in flight.
InitRefreshingCall ==
    /\ RequestArrives
    /\ \E project \in Projects : tokenCache = <<StaleEntry(project)>>
    /\ refreshPromises = MapSet(<<>>, "a", 2)
    /\ cacheMetrics = [ZeroMetrics EXCEPT !.misses = 2, !.refreshes = 1]
    /\ cleanupTimer = TRUE
    /\ intervals = 1
    /\ lastCall = "getAccessToken"
    /\ strays = 0
    /\ promises = <<FinishedPromise("a"), StartedPromise("a")>>
    /\ calls = 2

HandlerFrame ==
    UNCHANGED <<clientVars, xlateVars, streamVars, nameVars, schemaVars, bodyVars>>

\* return c.json({ error: ... }, status)
Reply(status) ==
    /\ httpStatus' = status
    /\ hpc' = "responded"

\* The handler calls getAccessToken and awaits what it returns: the token of
\* a servable entry, or the promise of the refresh started or joined.
AwaitAccessToken(next) ==
    LET t == request.bearer
        at == CacheIndex(tokenCache, t)
        existing == existingPromise(refreshPromises, t)
    IN  /\ getAccessToken(t)
        /\ hpc' = next
        /\ IF CacheHit(tokenCache, at)
           THEN /\ awaited' = 0
                /\ accessToken' = AccessToken(tokenCache[at].accessToken)
           ELSE /\ awaited' = IF existing # 0 THEN existing ELSE Len(promises) + 1
                /\ accessToken' = Pending

\* The request arrives.  Lines 92-169: the checks, the thinking
\* configuration, and getProjectId up to its first await.
chatCompletions ==
    /\ hpc = "arrived"
    /\ HandlerFrame
    /\ UNCHANGED <<request, envProjectId, endpointAsked, discoveryPosts, sent>>
    /\ LET config == ThinkingConfigOf(ModelOf(request), request.reasoning_effort)
           at == CacheIndex(tokenCache, request.bearer)
       IN  IF Rejection(request) # 0
           THEN /\ Reply(Rejection(request))
                /\ UNCHANGED <<awaited, accessToken, projectId, thinkingConfig>>
                /\ UNCHANGED authVars
           ELSE IF config = Unsupported
           THEN /\ Reply(500)
                /\ UNCHANGED <<awaited, accessToken, projectId, thinkingConfig>>
                /\ UNCHANGED authVars
           ELSE /\ thinkingConfig' = config
                /\ httpStatus' = httpStatus
                /\ IF at # 0 /\ tokenCache[at].projectId # "undefined"
                   THEN /\ tokenCache' = [tokenCache EXCEPT ![at].lastAccessedAt = now]
                        /\ projectId' = tokenCache[at].projectId
                        /\ hpc' = "haveProject"
                        /\ UNCHANGED <<awaited, accessToken>>
                        /\ UNCHANGED <<refreshPromises, cacheMetrics, cleanupTimer, intervals, lastCall, strays,
                                       fingerprintCache, now, promises, calls>>
                   ELSE /\ AwaitAccessToken("projectToken")
                        /\ projectId' = projectId

\* The promise awaited settles: the .finally callback of the refresh has run
\* and the handler has its outcome.
Settles == awaited # 0 /\ finallyCallback(awaited)

\* What the handler has once its await is over.
Outcome == IF awaited = 0 THEN accessToken ELSE promises[awaited].result

\* getProjectId has the access token, or the error of the refresh, which the
\* handler catches.  With the token it sends loadCodeAssist to the first
\* endpoint.
ProjectToken ==
    /\ hpc = "projectToken"
    /\ HandlerFrame
    /\ IF awaited = 0 THEN UNCHANGED authVars ELSE Settles
    /\ awaited' = 0
    /\ accessToken' = Outcome
    /\ IF Outcome.kind = "token"
       THEN /\ hpc' = "discover"
            /\ endpointAsked' = 1
            /\ discoveryPosts' = discoveryPosts + 1
            /\ httpStatus' = httpStatus
       ELSE /\ Reply(500)
            /\ UNCHANGED <<endpointAsked, discoveryPosts>>
    /\ UNCHANGED <<request, envProjectId, projectId, thinkingConfig, sent>>

\* The answers of loadCodeAssist: a project, a 2xx without one, a failure.
DiscoveryAnswers == {"p1", "none", "failed"}

\* An endpoint answers loadCodeAssist.  A project is kept in the entry of the
\* token, when there is one, and returned; otherwise the next endpoint is
\* asked, and after the last one getProjectId returns undefined.
LoadCodeAssist(answer) ==
    /\ hpc = "discover"
    /\ HandlerFrame
    /\ LET at == CacheIndex(tokenCache, request.bearer)
       IN  IF answer \notin {"none", "failed"}
           THEN /\ tokenCache' =
                     IF at # 0
                     THEN [tokenCache EXCEPT ![at].projectId = answer,
                                             ![at].lastAccessedAt = now]
                     ELSE tokenCache
                /\ projectId' = answer
                /\ hpc' = "haveProject"
                /\ UNCHANGED <<endpointAsked, discoveryPosts>>
           ELSE IF endpointAsked < Len(ANTIGRAVITY_ENDPOINTS)
           THEN /\ endpointAsked' = endpointAsked + 1
                /\ discoveryPosts' = discoveryPosts + 1
                /\ UNCHANGED <<tokenCache, projectId, hpc>>
           ELSE /\ projectId' = "undefined"
                /\ hpc' = "haveProject"
                /\ UNCHANGED <<tokenCache, endpointAsked, discoveryPosts>>
    /\ UNCHANGED <<refreshPromises, cacheMetrics, cleanupTimer, intervals, lastCall, strays, fingerprintCache,
                   now, promises, calls>>
    /\ UNCHANGED <<request, envProjectId, awaited, accessToken, thinkingConfig,
                   sent, httpStatus>>

\* const accessToken = await getAccessToken(refreshToken)
AccessTokenCall ==
    /\ hpc = "haveProject"
    /\ HandlerFrame
    /\ AwaitAccessToken("accessToken")
    /\ UNCHANGED <<request, envProjectId, endpointAsked, discoveryPosts,
                   projectId, thinkingConfig, sent, httpStatus>>

\* The payload and the options of the call of makeAntigravityRequest.
UpstreamCall ==
    [project |-> projectId,
     model |-> normalizeModelForAntigravity(ModelOf(request), request.reasoning_effort),
     thinkingConfig |-> thinkingConfig,
     headerStyle |-> OrchestratorStyle(ModelOf(request))]

\* The handler has the access token and calls makeAntigravityRequest, or has
\* the error of the refresh and answers 500.
MakeRequest ==
    /\ hpc = "accessToken"
    /\ HandlerFrame
    /\ IF awaited = 0 THEN UNCHANGED authVars ELSE Settles
    /\ awaited' = 0
    /\ accessToken' = Outcome
    /\ IF Outcome.kind = "token"
       THEN /\ hpc' = "upstream"
            /\ sent' = Append(sent, UpstreamCall)
            /\ httpStatus' = httpStatus
       ELSE /\ Reply(500)
            /\ sent' = sent
    /\ UNCHANGED <<request, envProjectId, endpointAsked, discoveryPosts,
                   projectId, thinkingConfig>>

\* What makeAntigravityRequest ends with: a response with a body, one
\* without, or an error.
UpstreamOutcomes == {"body", "no body", "error"}

\* Lines 209-222: the response is streamed or collected (200), has no body
\* (502), or the error is caught (500).
UpstreamReturns(outcome) ==
    /\ hpc = "upstream"
    /\ HandlerFrame
    /\ Reply(CASE outcome = "body" -> 200
               [] outcome = "no body" -> 502
               [] OTHER -> 500)
    /\ UNCHANGED authVars
    /\ UNCHANGED <<request, envProjectId, awaited, accessToken, endpointAsked,
                   discoveryPosts, projectId, thinkingConfig, sent>>

\* The answers of the token endpoint to the refreshes of the request.
HandlerTokenStatuses == {200, 401, 500}

NextHandler ==
    \/ chatCompletions
    \/ ProjectToken
    \/ \E answer \in DiscoveryAnswers : LoadCodeAssist(answer)
    \/ AccessTokenCall
    \/ MakeRequest
    \/ \E outcome \in UpstreamOutcomes : UpstreamReturns(outcome)
    \/ \E p \in 1..Len(promises) :
          \E status \in HandlerTokenStatuses, expires_in \in ExpiresIn :
              Respond(p, status, expires_in)

(***************************************************************************)
(*                         TOOL SCHEMA CLEANING                            *)
(*                                                                         *)
(* cleanJsonSchema (cleanLight) and cleanJSONSchemaForAntigravity          *)
(* (cleanStrict) on JSON trees.  typeof x === 'object' holds of objects    *)
(* and arrays; the trees of the model hold no null.  Where the code        *)
(* spreads or walks a value that the model's inputs never put in that      *)
(* place (an array for properties, a string for required), the operator    *)
(* says so.                                                                *)
(***************************************************************************)
IsObject(x) == x.t = "object"
IsArray(x) == x.t = "array"
\* typeof x === 'object'
IsNode(x) == x.t \in {"object", "array"}

\* JavaScript truthiness
Truthy(x) ==
    CASE x.t = "string" -> x.v # ""
      [] x.t = "text" -> x.v # <<>>
      [] x.t = "number" -> x.v # 0
      [] x.t = "boolean" -> x.v
      [] OTHER -> TRUE

\* o[k] !== undefined, for an object o
Has(o, k) == k \in DOMAIN o.v
HasTruthy(o, k) == Has(o, k) /\ Truthy(o.v[k])
HasArray(o, k) == Has(o, k) /\ IsArray(o.v[k])

\* { ...g, ...f } on the entries: f wins
Merge(f, g) ==
    [k \in DOMAIN f \cup DOMAIN g |-> IF k \in DOMAIN f THEN f[k] ELSE g[k]]
\* o[k] = val on a copy
Put(o, k, val) == Obj(Merge(k :> val, o.v))
\* delete o[k] on a copy, for each k of keys
Del(o, keys) == Obj([k \in DOMAIN o.v \ keys |-> o.v[k]])
\* the entries a spread takes from x: those of an object, none of a
\* primitive (arrays are not spread in the model's runs)
EntriesOf(x) == IF IsObject(x) THEN x.v ELSE <<>>

\* String(x), as one word
StringOf(x) ==
    CASE x.t = "string" -> x.v
      [] x.t = "number" -> ToString(x.v)
      [] x.t = "boolean" -> IF x.v THEN "true" ELSE "false"
      [] OTHER -> "[object Object]"

\* elements.map(String).join(sep), word by word
RECURSIVE JoinWords(_, _)
JoinWords(elements, sep) ==
    IF Len(elements) = 0 THEN <<>>
    ELSE IF Len(elements) = 1 THEN <<StringOf(elements[1])>>
    ELSE <<StringOf(elements[1]), sep>> \o JoinWords(Tail(elements), sep)

\* seq.includes(x)
Includes(elements, x) == \E q \in 1..Len(elements) : elements[q] = x

\* typeof schema.description === 'string' ? schema.description : ''
DescriptionOf(schema) ==
    IF IsObject(schema) /\ Has(schema, "description")
          /\ schema.v["description"].t = "text"
    THEN schema.v["description"].v
    ELSE <<>>

\* existing ? `${existing} (${hint})` : hint
WithHint(existing, hint) ==
    IF existing # <<>> THEN existing \o <<"(">> \o hint \o <<")">> ELSE hint

appendHint(schema, hint) ==
    IF ~IsObject(schema) THEN schema
    ELSE Put(schema, "description", Text(WithHint(DescriptionOf(schema), hint)))

\* $ref.includes('/') ? $ref.split('/').pop() : $ref, on the references of
\* the model's inputs
DefName(ref) == IF ref = "#/$defs/Pet" THEN "Pet" ELSE ref

RECURSIVE convertRefsToHints(_)
convertRefsToHints(schema) ==
    IF ~IsNode(schema) THEN schema
    ELSE IF IsArray(schema)
    THEN Arr([q \in 1..Len(schema.v) |-> convertRefsToHints(schema.v[q])])
    ELSE IF Has(schema, "$ref") /\ schema.v["$ref"].t = "string"
    THEN Obj(("type" :> Str("object")) @@
             ("description" :>
                 Text(WithHint(DescriptionOf(schema),
                               <<"See:", DefName(schema.v["$ref"].v)>>))))
    ELSE Obj([k \in DOMAIN schema.v |-> convertRefsToHints(schema.v[k])])

\* The key const becomes enum: [value], the value as it is, unless the node
\* has an enum; every other value is converted.  (An enum that is present
\* and falsy is not among the model's inputs.)
RECURSIVE convertConstToEnum(_)
convertConstToEnum(schema) ==
    IF ~IsNode(schema) THEN schema
    ELSE IF IsArray(schema)
    THEN Arr([q \in 1..Len(schema.v) |-> convertConstToEnum(schema.v[q])])
    ELSE LET moves == Has(schema, "const") /\ ~HasTruthy(schema, "enum")
             keys == IF moves THEN (DOMAIN schema.v \ {"const"}) \cup {"enum"}
                     ELSE DOMAIN schema.v
         IN  Obj([k \in keys |->
                     IF moves /\ k = "enum"
                     THEN Arr(<<schema.v["const"]>>)
                     ELSE convertConstToEnum(schema.v[k])])

RECURSIVE addEnumHints(_)
addEnumHints(schema) ==
    IF ~IsNode(schema) THEN schema
    ELSE IF IsArray(schema)
    THEN Arr([q \in 1..Len(schema.v) |-> addEnumHints(schema.v[q])])
    ELSE LET result ==
                 IF HasArray(schema, "enum") /\ Len(schema.v["enum"].v) > 1
                       /\ Len(schema.v["enum"].v) <= 10
                 THEN appendHint(schema,
                          <<"Allowed:">> \o JoinWords(schema.v["enum"].v, ","))
                 ELSE schema
         IN  Obj([k \in DOMAIN result.v |->
                     IF k # "enum" /\ IsNode(result.v[k])
                     THEN addEnumHints(result.v[k])
                     ELSE result.v[k]])

\* x === false
IsFalse(x) == x.t = "boolean" /\ ~x.v

RECURSIVE addAdditionalPropertiesHints(_)
addAdditionalPropertiesHints(schema) ==
    IF ~IsNode(schema) THEN schema
    ELSE IF IsArray(schema)
    THEN Arr([q \in 1..Len(schema.v) |-> addAdditionalPropertiesHints(schema.v[q])])
    ELSE LET result ==
                 IF Has(schema, "additionalProperties")
                       /\ IsFalse(schema.v["additionalProperties"])
                 THEN appendHint(schema, <<"No extra properties allowed">>)
                 ELSE schema
         IN  Obj([k \in DOMAIN result.v |->
                     IF k # "additionalProperties" /\ IsNode(result.v[k])
                     THEN addAdditionalPropertiesHints(result.v[k])
                     ELSE result.v[k]])

UNSUPPORTED_CONSTRAINTS ==
    <<"minLength", "maxLength", "exclusiveMinimum", "exclusiveMaximum",
      "pattern", "minItems", "maxItems", "format", "default", "examples">>

UNSUPPORTED_KEYWORDS ==
    {UNSUPPORTED_CONSTRAINTS[q] : q \in 1..Len(UNSUPPORTED_CONSTRAINTS)} \cup
    {"$schema", "$defs", "definitions", "const", "$ref", "additionalProperties",
     "propertyNames", "title", "$id", "$comment"}

\* The loop over UNSUPPORTED_CONSTRAINTS, from the q-th constraint on.
RECURSIVE ConstraintHints(_, _)
ConstraintHints(result, q) ==
    IF q > Len(UNSUPPORTED_CONSTRAINTS) THEN result
    ELSE LET constraint == UNSUPPORTED_CONSTRAINTS[q]
         IN  ConstraintHints(
                 IF Has(result, constraint) /\ ~IsNode(result.v[constraint])
                 THEN appendHint(result,
                          <<constraint, ":", StringOf(result.v[constraint])>>)
                 ELSE result,
                 q + 1)

RECURSIVE moveConstraintsToDescription(_)
moveConstraintsToDescription(schema) ==
    IF ~IsNode(schema) THEN schema
    ELSE IF IsArray(schema)
    THEN Arr([q \in 1..Len(schema.v) |-> moveConstraintsToDescription(schema.v[q])])
    ELSE LET result == ConstraintHints(schema, 1)
         IN  Obj([k \in DOMAIN result.v |->
                     IF IsNode(result.v[k])
                     THEN moveConstraintsToDescription(result.v[k])
                     ELSE result.v[k]])

\* for (const r of more) if (!elements.includes(r)) elements.push(r)
RECURSIVE AddMissing(_, _)
AddMissing(elements, more) ==
    IF Len(more) = 0 THEN elements
    ELSE AddMissing(IF Includes(elements, more[1]) THEN elements
                    ELSE Append(elements, more[1]),
                    Tail(more))

\* The body of the loop over allOf for one item: acc holds merged and
\* mergedRequired.
MergeItem(acc, item) ==
    IF ~IsObject(item) THEN acc
    ELSE LET props ==
                 IF HasTruthy(item, "properties")
                 THEN Put(acc.merged, "properties",
                          Obj(Merge(EntriesOf(item.v["properties"]),
                                    IF Has(acc.merged, "properties")
                                    THEN EntriesOf(acc.merged.v["properties"])
                                    ELSE <<>>)))
                 ELSE acc.merged
             rest == [k \in DOMAIN item.v \ {"properties", "required"} |-> item.v[k]]
         IN  [merged |-> Obj(Merge(props.v, rest)),
              required |-> IF HasArray(item, "required")
                           THEN AddMissing(acc.required, item.v["required"].v)
                           ELSE acc.required]

RECURSIVE MergeItems(_, _)
MergeItems(acc, items) ==
    IF Len(items) = 0 THEN acc
    ELSE MergeItems(MergeItem(acc, items[1]), Tail(items))

\* The allOf block of mergeAllOf on a copy of the node.
MergedNode(result) ==
    LET acc == MergeItems([merged |-> EmptyObject, required |-> <<>>],
                          result.v["allOf"].v)
        withProps ==
            IF Has(acc.merged, "properties")
            THEN Put(result, "properties",
                     Obj(Merge(acc.merged.v["properties"].v,
                               IF Has(result, "properties")
                               THEN EntriesOf(result.v["properties"])
                               ELSE <<>>)))
            ELSE result
        withRequired ==
            IF Len(acc.required) > 0
            THEN Put(withProps, "required",
                     Arr(AddMissing(<<>>,
                             (IF HasArray(result, "required")
                              THEN result.v["required"].v ELSE <<>>)
                             \o acc.required)))
            ELSE withProps
        others == [k \in DOMAIN acc.merged.v \ {"properties", "required"} |->
                      acc.merged.v[k]]
    IN  Del(Obj(Merge(withRequired.v, others)), {"allOf"})

RECURSIVE mergeAllOf(_)
mergeAllOf(schema) ==
    IF ~IsNode(schema) THEN schema
    ELSE IF IsArray(schema)
    THEN Arr([q \in 1..Len(schema.v) |-> mergeAllOf(schema.v[q])])
    ELSE LET result == IF HasArray(schema, "allOf") THEN MergedNode(schema)
                       ELSE schema
         IN  Obj([k \in DOMAIN result.v |->
                     IF IsNode(result.v[k]) THEN mergeAllOf(result.v[k])
                     ELSE result.v[k]])

IsType(schema, name) ==
    Has(schema, "type") /\ schema.v["type"].t = "string" /\ schema.v["type"].v = name

scoreOption(schema) ==
    IF ~IsObject(schema) THEN [score |-> 0, typeName |-> Str("unknown")]
    ELSE IF IsType(schema, "object") \/ HasTruthy(schema, "properties")
    THEN [score |-> 3, typeName |-> Str("object")]
    ELSE IF IsType(schema, "array") \/ HasTruthy(schema, "items")
    THEN [score |-> 2, typeName |-> Str("array")]
    ELSE IF HasTruthy(schema, "type") /\ ~IsType(schema, "null")
    THEN [score |-> 1, typeName |-> schema.v["type"]]
    ELSE [score |-> 0,
          typeName |-> IF HasTruthy(schema, "type") THEN schema.v["type"]
                       ELSE Str("null")]

\* What one option gives to the merged enum.
OptionValues(opt) ==
    IF Has(opt, "const") THEN <<Str(StringOf(opt.v["const"]))>>
    ELSE IF HasArray(opt, "enum")
    THEN [q \in 1..Len(opt.v["enum"].v) |-> Str(StringOf(opt.v["enum"].v[q]))]
    ELSE <<>>

\* The option does not make tryMergeEnumFromUnion return null.
Mergeable(opt) ==
    /\ IsObject(opt)
    /\ \/ Has(opt, "const")
       \/ HasArray(opt, "enum")
       \/ /\ \A k \in {"properties", "items", "anyOf", "oneOf", "allOf"} :
                ~HasTruthy(opt, k)
          /\ ~(HasTruthy(opt, "type") /\ ~HasTruthy(opt, "enum"))

RECURSIVE AllOptionValues(_)
AllOptionValues(options) ==
    IF Len(options) = 0 THEN <<>>
    ELSE OptionValues(options[1]) \o AllOptionValues(Tail(options))

\* found is FALSE for null
tryMergeEnumFromUnion(options) ==
    IF /\ Len(options) > 0
       /\ \A q \in 1..Len(options) : Mergeable(options[q])
       /\ AllOptionValues(options) # <<>>
    THEN [found |-> TRUE, vals |-> AllOptionValues(options)]
    ELSE [found |-> FALSE, vals |-> <<>>]

\* The first option of the highest score.
BestIdx(options) ==
    CHOOSE b \in 1..Len(options) :
        /\ \A q \in 1..Len(options) :
              scoreOption(options[q]).score <= scoreOption(options[b]).score
        /\ \A q \in 1..(b - 1) :
              scoreOption(options[q]).score < scoreOption(options[b]).score

\* The type names of the options, as words, each once.
RECURSIVE AllTypes(_)
AllTypes(options) ==
    IF Len(options) = 0 THEN <<>>
    ELSE (IF Truthy(scoreOption(options[1]).typeName)
          THEN <<scoreOption(options[1]).typeName>> ELSE <<>>)
         \o AllTypes(Tail(options))

RECURSIVE flattenAnyOfOneOf(_)

\* The body of the loop over ['anyOf', 'oneOf'] for one key.
FlattenUnion(result, unionKey) ==
    IF ~(HasArray(result, unionKey) /\ Len(result.v[unionKey].v) > 0) THEN result
    ELSE LET options == result.v[unionKey].v
             parentDesc == DescriptionOf(result)
             mergedEnum == tryMergeEnumFromUnion(options)
             flattened == flattenAnyOfOneOf(options[BestIdx(options)])
             best == IF Truthy(flattened) THEN flattened
                     ELSE Obj("type" :> Str("string"))
             childDesc == DescriptionOf(best)
             described ==
                 IF parentDesc # <<>>
                 THEN Put(best, "description",
                          Text(IF childDesc # <<>> /\ childDesc # parentDesc
                               THEN parentDesc \o <<"(">> \o childDesc \o <<")">>
                               ELSE parentDesc))
                 ELSE best
             selected ==
                 IF Len(AllTypes(options)) > 1
                 THEN appendHint(described,
                          <<"Accepts:">> \o
                          JoinWords(AddMissing(<<>>, AllTypes(options)), "|"))
                 ELSE described
         IN  IF mergedEnum.found
             THEN Obj(Merge(("type" :> Str("string")) @@
                            ("enum" :> Arr(mergedEnum.vals)),
                            Del(result, {unionKey}).v))
             ELSE Obj(Merge(EntriesOf(selected),
                            Del(result, {unionKey, "description"}).v))

flattenAnyOfOneOf(schema) ==
    IF ~IsNode(schema) THEN schema
    ELSE IF IsArray(schema)
    THEN Arr([q \in 1..Len(schema.v) |-> flattenAnyOfOneOf(schema.v[q])])
    ELSE LET result == FlattenUnion(FlattenUnion(schema, "anyOf"), "oneOf")
         IN  Obj([k \in DOMAIN result.v |->
                     IF IsNode(result.v[k]) THEN flattenAnyOfOneOf(result.v[k])
                     ELSE result.v[k]])

\* types.filter(t => t !== 'null' && t)
NonNull(types) == SelectSeq(types, LAMBDA x : x # Str("null") /\ Truthy(x))

RECURSIVE flattenTypeArrays(_)
flattenTypeArrays(schema) ==
    IF ~IsNode(schema) THEN schema
    ELSE IF IsArray(schema)
    THEN Arr([q \in 1..Len(schema.v) |-> flattenTypeArrays(schema.v[q])])
    ELSE LET types == schema.v["type"].v
             nonNull == NonNull(types)
             typed == Put(schema, "type",
                          IF Len(nonNull) > 0 THEN nonNull[1] ELSE Str("string"))
             accepts == IF Len(nonNull) > 1
                        THEN appendHint(typed,
                                 <<"Accepts:">> \o JoinWords(nonNull, "|"))
                        ELSE typed
             result == IF ~HasArray(schema, "type") THEN schema
                       ELSE IF Includes(types, Str("null"))
                       THEN appendHint(accepts, <<"nullable">>)
                       ELSE accepts
         IN  Obj([k \in DOMAIN result.v |->
                     IF IsNode(result.v[k]) THEN flattenTypeArrays(result.v[k])
                     ELSE result.v[k]])

\* Under the key properties the entries of the value are cleaned one by one
\* and its keys are kept (an array is not found there in the model's runs).
RECURSIVE removeUnsupportedKeywords(_, _)
removeUnsupportedKeywords(schema, insideProperties) ==
    IF ~IsNode(schema) THEN schema
    ELSE IF IsArray(schema)
    THEN Arr([q \in 1..Len(schema.v) |-> removeUnsupportedKeywords(schema.v[q], FALSE)])
    ELSE LET kept == IF insideProperties THEN DOMAIN schema.v
                     ELSE DOMAIN schema.v \ UNSUPPORTED_KEYWORDS
         IN  Obj([k \in kept |->
                     IF ~IsNode(schema.v[k]) THEN schema.v[k]
                     ELSE IF k = "properties" /\ IsObject(schema.v[k])
                     THEN Obj([name \in DOMAIN schema.v[k].v |->
                                  removeUnsupportedKeywords(schema.v[k].v[name], FALSE)])
                     ELSE removeUnsupportedKeywords(schema.v[k], FALSE)])

\* r in result.properties
InProperties(r, properties) == IsObject(properties) /\ StringOf(r) \in DOMAIN properties.v

RECURSIVE cleanupRequiredFields(_)
cleanupRequiredFields(schema) ==
    IF ~IsNode(schema) THEN schema
    ELSE IF IsArray(schema)
    THEN Arr([q \in 1..Len(schema.v) |-> cleanupRequiredFields(schema.v[q])])
    ELSE LET valid == SelectSeq(schema.v["required"].v,
                          LAMBDA r : InProperties(r, schema.v["properties"]))
             result ==
                 IF HasArray(schema, "required") /\ HasTruthy(schema, "properties")
                       /\ IsNode(schema.v["properties"])
                 THEN IF Len(valid) = 0 THEN Del(schema, {"required"})
                      ELSE Put(schema, "required", Arr(valid))
                 ELSE schema
         IN  Obj([k \in DOMAIN result.v |->
                     IF IsNode(result.v[k]) THEN cleanupRequiredFields(result.v[k])
                     ELSE result.v[k]])

Placeholder ==
    Obj("_placeholder" :>
            Obj(("type" :> Str("boolean")) @@
                ("description" :> Text(<<"Placeholder for empty schema">>))))

\* Object.keys(x).length
Size(x) == IF IsArray(x) THEN Len(x.v) ELSE Cardinality(DOMAIN x.v)

RECURSIVE addEmptySchemaPlaceholder(_)
addEmptySchemaPlaceholder(schema) ==
    IF ~IsNode(schema) THEN schema
    ELSE IF IsArray(schema)
    THEN Arr([q \in 1..Len(schema.v) |-> addEmptySchemaPlaceholder(schema.v[q])])
    ELSE LET hasProps == /\ HasTruthy(schema, "properties")
                         /\ IsNode(schema.v["properties"])
                         /\ Size(schema.v["properties"]) > 0
             result ==
                 IF IsType(schema, "object") /\ ~hasProps
                 THEN Put(Put(schema, "properties", Placeholder),
                          "required", Arr(<<Str("_placeholder")>>))
                 ELSE schema
         IN  Obj([k \in DOMAIN result.v |->
                     IF IsNode(result.v[k]) THEN addEmptySchemaPlaceholder(result.v[k])
                     ELSE result.v[k]])

cleanJSONSchemaForAntigravity(schema) ==
    IF ~IsNode(schema) THEN schema
    ELSE addEmptySchemaPlaceholder(
         cleanupRequiredFields(
         removeUnsupportedKeywords(
         flattenTypeArrays(
         flattenAnyOfOneOf(
         mergeAllOf(
         moveConstraintsToDescription(
         addAdditionalPropertiesHints(
         addEnumHints(
         convertConstToEnum(
         convertRefsToHints(schema)))))))), FALSE)))

\* const unsupported = [...] of cleanJsonSchema
LightUnsupported ==
    {"minLength", "maxLength", "pattern", "format", "examples", "default",
     "strict", "$schema", "additionalProperties"}

\* The object cleanJsonSchema returns.  { ...schema } of a primitive is {}.
RECURSIVE cleanJsonSchema(_)
cleanJsonSchema(schema) ==
    LET cleaned == Del(Obj(EntriesOf(schema)), LightUnsupported)
        props == IF HasTruthy(cleaned, "properties") /\ IsObject(cleaned.v["properties"])
                 THEN Put(cleaned, "properties",
                          Obj([name \in DOMAIN cleaned.v["properties"].v |->
                                  cleanJsonSchema(cleaned.v["properties"].v[name])]))
                 ELSE cleaned
    IN  IF HasTruthy(props, "items") /\ IsObject(props.v["items"])
        THEN Put(props, "items", cleanJsonSchema(props.v["items"]))
        ELSE props

\* The object passed to cleanJsonSchema as the call leaves it.  cleaned is a
\* shallow copy, so the deletes and the assignment to cleaned.items do not
\* show in schema; cleaned.properties is the very object schema.properties,
\* so each props[key] = cleanJsonSchema(props[key]) replaces the entry in
\* schema too; schema.items is the object the recursive call was given, as
\* that call left it.
RECURSIVE cleanJsonSchemaInput(_)
cleanJsonSchemaInput(schema) ==
    LET props == IF HasTruthy(schema, "properties") /\ IsObject(schema.v["properties"])
                 THEN Put(schema, "properties",
                          Obj([name \in DOMAIN schema.v["properties"].v |->
                                  cleanJsonSchema(schema.v["properties"].v[name])]))
                 ELSE schema
    IN  IF HasTruthy(props, "items") /\ IsObject(props.v["items"])
        THEN Put(props, "items", cleanJsonSchemaInput(props.v["items"]))
        ELSE props

\* The number of cleaner calls in a run.
MaxCleanings == 2

StringSchema == Obj("type" :> Str("string"))
IntegerSchema == Obj("type" :> Str("integer"))

\* The schemas of single tool parameters.
ParameterSchemas ==
    { StringSchema,
      Obj(("type" :> Str("string")) @@ ("description" :> Text(<<"name">>)) @@
          ("minLength" :> Num(1))),
      Obj("const" :> Str("x")),
      Obj(("type" :> Str("string")) @@ ("enum" :> Arr(<<Str("a"), Str("b")>>))),
      Obj("type" :> Arr(<<Str("string"), Str("null")>>)),
      Obj(("type" :> Str("object")) @@ ("additionalProperties" :> Bool(FALSE)) @@
          ("properties" :> Obj("x" :> StringSchema))),
      Obj("$ref" :> Str("#/$defs/Pet")),
      Obj("anyOf" :> Arr(<<Obj("const" :> Str("a")), Obj("const" :> Str("b"))>>)),
      Obj("anyOf" :> Arr(<<StringSchema,
                           Obj(("type" :> Str("object")) @@
                               ("properties" :> Obj("k" :> IntegerSchema)))>>)),
      Obj("allOf" :> Arr(<<Obj(("properties" :> Obj("u" :> StringSchema)) @@
                               ("required" :> Arr(<<Str("u")>>))),
                           Obj("properties" :> Obj("w" :> IntegerSchema))>>)),
      Obj(("type" :> Str("array")) @@
          ("items" :> Obj(("type" :> Str("string")) @@ ("format" :> Str("uri"))))),
      Obj(("type" :> Str("object")) @@
          ("properties" :> Obj("const" :> StringSchema))),
      Obj(("type" :> Str("string")) @@ ("title" :> Str("T")) @@
          ("default" :> Str("d")) @@ ("format" :> Str("date"))),
      Obj("type" :> Str("object")),
      Obj("required" :> Arr(<<Str("a")>>)),
      Obj(("type" :> Str("array")) @@
          ("items" :> Obj(("type" :> Str("object")) @@
                          ("properties" :>
                              Obj("n" :> Obj(("type" :> Str("string")) @@
                                             ("pattern" :> Str("p")))))))) }

\* The names of the first parameter: an ordinary one and one that is also a
\* schema keyword.
FirstNames == {"a", "const"}

\* The required lists of the tools; the empty sequence stands for no list.
RequiredLists == {<<>>, <<Str("a")>>, <<Str("a"), Str("zz")>>}

\* parameters of a tool with two parameters
ToolSchema(first, s1, s2, required) ==
    Obj(Merge(("type" :> Str("object")) @@
              ("properties" :> Obj((first :> s1) @@ ("b" :> s2))),
              IF required = <<>> THEN <<>> ELSE "required" :> Arr(required)))

ToolSchemas ==
    { ToolSchema(first, s1, s2, required) :
          first \in FirstNames, s1 \in ParameterSchemas, s2 \in ParameterSchemas,
          required \in RequiredLists }

InitSchemaCall ==
    /\ schemaTree \in ToolSchemas
    /\ schemaArg = EmptyObject
    /\ schemaAfter = EmptyObject
    /\ cleanedBy = "none"
    /\ cleanings = 0

SchemaFrame ==
    UNCHANGED <<clientVars, xlateVars, streamVars, authVars, nameVars, orchVars,
                bodyVars>>

\* schemaTree = cleanJsonSchema(schemaTree): schemaArg is the tree passed as
\* it was at the call, schemaAfter the same object at the return.
CleanLight ==
    /\ cleanings < MaxCleanings
    /\ schemaArg' = schemaTree
    /\ schemaAfter' = cleanJsonSchemaInput(schemaTree)
    /\ schemaTree' = cleanJsonSchema(schemaTree)
    /\ cleanedBy' = "light"
    /\ cleanings' = cleanings + 1
    /\ SchemaFrame

\* schemaTree = cleanJSONSchemaForAntigravity(schemaTree).  Each phase writes
\* to the objects it has made itself ({ ...schema }, schema.map(...), a new
\* literal), so the tree passed is at the return what it was at the call.
CleanStrict ==
    /\ cleanings < MaxCleanings
    /\ schemaArg' = schemaTree
    /\ schemaAfter' = schemaTree
    /\ schemaTree' = cleanJSONSchemaForAntigravity(schemaTree)
    /\ cleanedBy' = "strict"
    /\ cleanings' = cleanings + 1
    /\ SchemaFrame

NextSchema ==
    \/ CleanLight
    \/ CleanStrict

InitClient == InitClientCall /\ XlateIdle /\ StreamIdle /\ AuthIdle /\ HandlerIdle

SpecClient == InitClient /\ [][NextClient]_vars


(***************************************************************************)
(*                      CLAIMS ABOUT THE UPSTREAM CLIENT                   *)
(***************************************************************************)
PassOrder(s) == IF s = "gemini-cli" THEN <<"prod">> ELSE <<"daily", "autopush", "prod">>

Answered2xx == \E s \in Styles, e \in EndpointNames : lastAnswer[s][e] = "2xx"

EndpointOrderInv ==
    /\ \A s \in Styles : \A e \in EndpointNames :
          postsTo[s][e] > 0 =>
             \E k \in 1..Len(PassOrder(s)) :
                /\ PassOrder(s)[k] = e
                /\ \A j \in 1..(k - 1) :
                      /\ postsTo[s][PassOrder(s)[j]] > 0
                      /\ lastAnswer[s][PassOrder(s)[j]] = "non2xx"
    /\ Answered2xx => cpc = "returned" /\ lastAnswer[style][endpoint] = "2xx"

\* C7: in one style pass the endpoints are contacted in list order (daily,
\* autopush, prod; gemini-cli: prod only): an endpoint gets a POST only after
\* every earlier endpoint of the pass answered non-2xx, and once an endpoint
\* has answered 2xx the call has returned and no further POST is sent.
C7_EndpointOrder ==
    /\ []EndpointOrderInv
    /\ [][Answered2xx => postsTo' = postsTo]_vars

C7_Witness ==
    /\ cpc = "returned"
    /\ style = "antigravity"
    /\ endpoint = "prod"
    /\ postsTo["antigravity"]["daily"] > 0
    /\ postsTo["antigravity"]["autopush"] > 0

\* C8: for every request of the orchestrator, an error is surfaced only after
\* the upstream client has tried a next endpoint as well: a thrown call has
\* sent POSTs to more than one endpoint.
C8_FallbackBeforeError ==
    (caller = "orchestrator" /\ cpc = "thrown") =>
        Cardinality({e \in EndpointNames :
                        \E s \in Styles : postsTo[s][e] > 0}) > 1

\* C9: at most 5 POSTs to any endpoint in one style pass, and at most 4 sleeps
\* on it.
C9_AttemptBound ==
    \A s \in Styles : \A e \in EndpointNames :
        postsTo[s][e] <= 5 /\ sleepsOn[s][e] <= 4

C9_Witness ==
    /\ postsTo["antigravity"]["autopush"] = 5
    /\ sleepsOn["antigravity"]["autopush"] = 4
    /\ cpc \in {"returned", "thrown"}

IsCapacityResponse(resp) ==
    /\ resp.status \in {429, 503}
    /\ resp.body \in {"RESOURCE_EXHAUSTED", "MODEL_CAPACITY_EXHAUSTED",
                      "INTERNAL", "SERVER_ERROR"}

\* C10: a 429/503 capacity response is surfaced as an error only when nothing
\* is left to try: the 4 retries on the current endpoint are used up, it is the
\* last endpoint of the pass, and no cross-style pass remains; and whenever the
\* call throws, the pass is on its last endpoint with no cross-style pass left.
C10_CapacityNotSurfaced ==
    cpc = "thrown" =>
        /\ i = Len(PassOrder(style)) - 1
        /\ style = "gemini-cli" \/ isClaudeModel(payload.model)
        /\ IsCapacityResponse(response) => capacityRetryCount = 4

C10_Witness ==
    /\ cpc = "thrown"
    /\ IsCapacityResponse(response)
    /\ depth = 1
    /\ postsTo["antigravity"]["prod"] = 5
    /\ postsTo["gemini-cli"]["prod"] = 5

\* The answer of endpoints[i] is handled in this step.
Handled == cpc = "fetch" /\ cpc' # "fetch"

\* The call has left endpoints[i]: the pass is on the next endpoint with no
\* retry counted, or it was the last endpoint and the pass is over.
LeftEndpoint ==
    \/ /\ style' = style
       /\ i' = i + 1
       /\ capacityRetryCount' = 0
       /\ cpc' = "loop"
    \/ /\ i = Len(PassOrder(style)) - 1
       /\ cpc' = "thrown" \/ depth' = depth + 1

\* C29: a 429/503 answer is followed by a sleep and a retry on the same
\* endpoint exactly when its body names a capacity reason and fewer than 4
\* retries were made on the endpoint; with any other body, or at 4 retries,
\* the call leaves the endpoint without sleeping.
C29_RetryOnlyOnCapacity ==
    [][(Handled /\ response'.status \in {429, 503}) =>
          IF IsCapacityResponse(response') /\ capacityRetryCount < 4
          THEN /\ cpc' = "sleep"
               /\ sleepsOn' = [sleepsOn EXCEPT ![style][endpoint] = @ + 1]
               /\ style' = style /\ i' = i
          ELSE /\ sleepsOn' = sleepsOn
               /\ LeftEndpoint]_vars

\* A 429 without a recognised reason on the first endpoint: one POST, no
\* sleep, and the pass is on the second endpoint.
C29_Witness ==
    /\ response = [status |-> 429, body |-> "QUOTA_PROJECT"]
    /\ style = "antigravity"
    /\ i = 1
    /\ cpc = "loop"
    /\ postsTo["antigravity"]["daily"] = 1
    /\ sleepsOn["antigravity"]["daily"] = 0

FallbackInv ==
    /\ depth \in {0, 1}
    /\ depth = 1 =>
          /\ style = "gemini-cli"
          /\ ~isClaudeModel(payload.model)
          /\ \A e \in EndpointNames :
                /\ postsTo["antigravity"][e] > 0
                /\ lastAnswer["antigravity"][e] = "non2xx"
    /\ depth = 0 =>
          \A e \in EndpointNames : postsTo[IF style = "antigravity" THEN "gemini-cli"
                                           ELSE "antigravity"][e] = 0
    /\ cpc = "thrown" => style = "gemini-cli" \/ isClaudeModel(payload.model)
    /\ cpc = "returned" => lastAnswer[style][endpoint] = "2xx"

\* C11: the client re-issues the request with gemini-cli style exactly when
\* its antigravity pass ended without a 2xx and the model is not Claude-family:
\* the re-issue happens once, from the last antigravity endpoint, after every
\* antigravity endpoint answered non-2xx; an antigravity call of a non-Claude
\* model never throws; a Claude-family model is never re-issued; and a
\* gemini-cli pass is never followed by another pass.
C11_CrossStyleFallback ==
    /\ []FallbackInv
    /\ [][depth' # depth =>
             /\ depth = 0 /\ depth' = 1
             /\ style = "antigravity" /\ style' = "gemini-cli"
             /\ ~isClaudeModel(payload.model)
             /\ i = Len(ANTIGRAVITY_ENDPOINTS) - 1
             /\ ~ok(response')]_vars
    /\ [][style = "gemini-cli" => style' = "gemini-cli" /\ depth' = depth]_vars

C11_Witness ==
    /\ depth = 1
    /\ cpc = "returned"
    /\ style = "gemini-cli"
    /\ caller = "direct"
    /\ lastAnswer["antigravity"]["prod"] = "non2xx"
    /\ lastAnswer["gemini-cli"]["prod"] = "2xx"

\* The identifier has no trailing tier segment and, if it names a gemini-3
\* model, ends in preview.
GeminiCliForm(model) ==
    /\ ~EndsWith(toLowerCase(model), TierSegments)
    /\ IncludesGemini3(toLowerCase(model)) => EndsWith(model, {"preview"})

\* C31: every POST sent with gemini-cli style, in a call of the orchestrator
\* or after the client's fallback, carries a model identifier in gemini-cli
\* form: no trailing tier suffix, and -preview if it contains gemini-3.
C31_GeminiCliPostsCarryCliModel ==
    (cpc = "fetch" /\ style = "gemini-cli" /\ (caller = "orchestrator" \/ depth = 1))
        => GeminiCliForm(payload.model)

\* C32: the sleep before capacity retry j (j = 0..3) on an endpoint, the
\* (j+1)-th sleep there, is min(1000 * 2^j, 8000) ms plus a jitter in
\* 0..499: at least 1000 ms, at most 8500 ms, and its non-jitter part is not
\* below that of the retry before.
C32_BackoffDelay ==
    cpc = "sleep" =>
        /\ capacityRetryCount \in 0..3
        /\ sleepsOn[style][endpoint] = capacityRetryCount + 1
        /\ waitMs - Min(1000 * Pow2(capacityRetryCount), 8000) \in 0..499
        /\ waitMs >= 1000 /\ waitMs <= 8500
        /\ capacityRetryCount > 0 =>
               Min(1000 * Pow2(capacityRetryCount), 8000)
                   >= Min(1000 * Pow2(capacityRetryCount - 1), 8000)

C32_Witness ==
    /\ cpc = "sleep"
    /\ capacityRetryCount = 3
    /\ waitMs = 8499
    /\ sleepsOn[style][endpoint] = 4

\* Every POST is answered, every sleep ends, and the client goes on to its
\* next POST.
SpecClientLive ==
    /\ InitClient
    /\ [][NextClient]_vars
    /\ WF_vars(SendPost)
    /\ WF_vars(\E resp \in Responses : Receive(resp))
    /\ WF_vars(WakeUp)

PostsIn(s) == postsTo[s]["daily"] + postsTo[s]["autopush"] + postsTo[s]["prod"]

\* C40: if every POST is answered, a call of the upstream client ends, with a
\* response or an error, after at most 15 POSTs in its antigravity pass and
\* at most 5 in its gemini-cli pass (15 in all for a Claude-family model),
\* and it re-issues itself at most once.
C40_ClientTerminates ==
    /\ [](/\ PostsIn("antigravity") <= 15
          /\ PostsIn("gemini-cli") <= 5
          /\ depth <= 1
          /\ isClaudeModel(payload.model) =>
                 PostsIn("antigravity") + PostsIn("gemini-cli") <= 15)
    /\ <>(cpc \in {"returned", "thrown"})

C40_Witness ==
    /\ cpc \in {"returned", "thrown"}
    /\ PostsIn("antigravity") = 15
    /\ PostsIn("gemini-cli") = 5
    /\ depth = 1

InitTranslate == InitTranslateCall /\ ClientIdle /\ StreamIdle /\ AuthIdle /\ HandlerIdle

SpecTranslate == InitTranslate /\ [][NextTranslate]_vars

InitStream == InitStreamCall /\ ClientIdle /\ XlateIdle /\ AuthIdle /\ HandlerIdle

SpecStream == InitStream /\ [][NextStream]_vars

InitAuth == InitAuthCall /\ ClientIdle /\ XlateIdle /\ StreamIdle /\ HandlerIdle

SpecAuth == InitAuth /\ [][NextAuth]_vars

SpecMetrics == InitAuth /\ [][NextMetrics]_vars

InitCache == InitCacheCall /\ ClientIdle /\ XlateIdle /\ StreamIdle /\ HandlerIdle

SpecCache == InitCache /\ [][NextCache]_vars

InitNames ==
    InitNamesCall /\ ClientIdle /\ XlateIdle /\ StreamIdle /\ AuthIdle /\ OrchIdle
        /\ SchemaIdle /\ BodyIdle

InitHandler ==
    InitHandlerCall /\ ClientIdle /\ XlateIdle /\ StreamIdle /\ NamesIdle
        /\ SchemaIdle /\ BodyIdle

SpecHandler == InitHandler /\ [][NextHandler]_vars

InitRefreshing ==
    InitRefreshingCall /\ ClientIdle /\ XlateIdle /\ StreamIdle /\ NamesIdle
        /\ SchemaIdle /\ BodyIdle

SpecRefreshing == InitRefreshing /\ [][NextHandler]_vars

SpecNames == InitNames /\ [][NextNames]_vars

InitSchema ==
    InitSchemaCall /\ ClientIdle /\ XlateIdle /\ StreamIdle /\ AuthIdle /\ NamesIdle
        /\ OrchIdle /\ BodyIdle

SpecSchema == InitSchema /\ [][NextSchema]_vars

InitBody ==
    InitBodyCall /\ ClientIdle /\ XlateIdle /\ AuthIdle /\ NamesIdle /\ OrchIdle
        /\ SchemaIdle

SpecBody == InitBody /\ [][NextBody]_vars

(***************************************************************************)
(* Claims about the message translator.  They are read off the input       *)
(* (messages) and the output (contents) alone.                             *)
(***************************************************************************)
\* All parts of the first e entries, in order, each with the index of the
\* message it came from.
RECURSIVE FlatParts(_, _)
FlatParts(cs, e) ==
    IF e = 0 THEN <<>>
    ELSE FlatParts(cs, e - 1) \o
         [q \in 1..Len(cs[e].parts) |->
             [kind |-> cs[e].parts[q].kind, id |-> cs[e].parts[q].id,
              name |-> cs[e].parts[q].name, from |-> cs[e].from]]

Flat == FlatParts(contents, Len(contents))

IsResponse(p) == Flat[p].kind = "functionResponse"
ToolMessageOf(p) == messages[Flat[p].from]
HasToolCallId(p) == ToolMessageOf(p).tool_call_id # AbsentId

\* The ids of the assistant tool-calls named n that precede part p, oldest first.
CallIdsBefore(p, n) ==
    LET before == SelectSeq(SubSeq(Flat, 1, p - 1),
                            LAMBDA x : x.kind = "functionCall" /\ x.name = n)
    IN  [q \in 1..Len(before) |-> before[q].id]

SeqRange(sq) == {sq[q] : q \in 1..Len(sq)}

\* The tool messages named as part p is that carry no tool_call_id, up to p.
IdlessUpTo(p) ==
    {q \in 1..p : /\ IsResponse(q)
                  /\ Flat[q].name = Flat[p].name
                  /\ ~HasToolCallId(q)}

\* Each of them was preceded by at least as many tool-calls of that name as
\* there were such tool messages up to it.
EnoughCallsUpTo(p) ==
    \A q \in IdlessUpTo(p) :
        Len(CallIdsBefore(q, Flat[q].name)) >= Cardinality(IdlessUpTo(q))

\* C5 (as stated): a tool message preceded by an assistant tool-call with the
\* same function name gets the id of such a tool-call as functionResponse.id.
C5_ResponseIdIsCallId ==
    \A p \in 1..Len(Flat) :
        (/\ IsResponse(p)
         /\ ToolMessageOf(p).name # NoName
         /\ CallIdsBefore(p, Flat[p].name) # <<>>)
        => Flat[p].id \in SeqRange(CallIdsBefore(p, Flat[p].name))

\* C5 (amended): a tool message that carries a tool_call_id gets that id as
\* functionResponse.id; the j-th tool message of a name without tool_call_id
\* gets the id of the j-th assistant tool-call of that name, provided each
\* such tool message so far was preceded by enough tool-calls of that name.
C5_ResponseIdResolution ==
    \A p \in 1..Len(Flat) :
        IsResponse(p) =>
            /\ HasToolCallId(p) => Flat[p].id = ToolMessageOf(p).tool_call_id
            /\ (~HasToolCallId(p) /\ EnoughCallsUpTo(p))
               => Flat[p].id = CallIdsBefore(p, Flat[p].name)[Cardinality(IdlessUpTo(p))]

\* A second tool message without tool_call_id has been given the id of the
\* second tool-call of its name, which is not the first one's.
C5_Witness ==
    \E p \in 1..Len(Flat) :
        /\ IsResponse(p) /\ ~HasToolCallId(p) /\ EnoughCallsUpTo(p)
        /\ Cardinality(IdlessUpTo(p)) = 2
        /\ Flat[p].id = CallIdsBefore(p, Flat[p].name)[2]
        /\ Flat[p].id # CallIdsBefore(p, Flat[p].name)[1]

\* sq without the first occurrence of x
RECURSIVE RemoveFirst(_, _)
RemoveFirst(sq, x) ==
    IF sq = <<>> THEN <<>>
    ELSE IF Head(sq) = x THEN Tail(sq)
    ELSE <<Head(sq)>> \o RemoveFirst(Tail(sq), x)

\* The ids of the tool-calls named n among the first q parts that no tool
\* message of that name among them has been matched to, oldest first.
RECURSIVE UnmatchedAfter(_, _)
UnmatchedAfter(n, q) ==
    IF q = 0 THEN <<>>
    ELSE IF Flat[q].kind = "functionCall" /\ Flat[q].name = n
    THEN Append(UnmatchedAfter(n, q - 1), Flat[q].id)
    ELSE IF IsResponse(q) /\ Flat[q].name = n
    THEN RemoveFirst(UnmatchedAfter(n, q - 1), Flat[q].id)
    ELSE UnmatchedAfter(n, q - 1)

\* C6: each functionResponse id is the tool message's tool_call_id when it
\* has one, and otherwise the earliest id of a tool-call of that name not yet
\* matched to an earlier tool message; an id already matched is not handed
\* out again.
C6_FifoUnmatched ==
    \A p \in 1..Len(Flat) :
        IsResponse(p) =>
            IF HasToolCallId(p)
            THEN Flat[p].id = ToolMessageOf(p).tool_call_id
            ELSE LET unmatched == UnmatchedAfter(Flat[p].name, p - 1)
                 IN  /\ unmatched # <<>> => Flat[p].id = Head(unmatched)
                     /\ Flat[p].id # UnknownId => Flat[p].id \in SeqRange(unmatched)

(***************************************************************************)
(* Claims about the stream transformer and the SSE re-framing.             *)
(***************************************************************************)
Positions == 0..(MaxFrameParts - 1)

\* The frames taken up so far that have a functionCall part at position pos.
FramesCalling(pos) ==
    {k \in 1..Len(frames) : pos < Len(frames[k]) /\ frames[k][pos + 1] = "functionCall"}

\* The tool-call chunks emitted for position pos.
ToolCallChunksFor(pos) ==
    {q \in 1..Len(out) : out[q].kind = "tool_calls" /\ out[q].pos = pos}

\* C2: whatever frames have been taken up, a position at which some of them
\* (one or several) carry a functionCall part has exactly one tool-call chunk
\* in the output, it is recorded as emitted, and no other position has any.
C2_OneToolCallPerPosition ==
    \A pos \in Positions :
        /\ Cardinality(ToolCallChunksFor(pos)) =
             (IF FramesCalling(pos) # {} THEN 1 ELSE 0)
        /\ pos \in ctx.emittedFunctionCalls <=> FramesCalling(pos) # {}

\* The tool-call chunks of the output, in emission order.
ToolCallChunks == SelectSeq(out, LAMBDA chunk : chunk.kind = "tool_calls")

\* C37: the index fields of the emitted tool-call chunks are 0, 1, 2, ... in
\* emission order, toolCallIndex is the number of positions recorded in
\* emittedFunctionCalls, and neither ever goes down.
C37_ToolCallIndexCounts ==
    /\ [](/\ \A q \in 1..Len(ToolCallChunks) : ToolCallChunks[q].index = q - 1
          /\ ctx.toolCallIndex = Cardinality(ctx.emittedFunctionCalls)
          /\ ctx.toolCallIndex = Len(ToolCallChunks))
    /\ [][/\ ctx'.toolCallIndex >= ctx.toolCallIndex
          /\ ctx.emittedFunctionCalls \subseteq ctx'.emittedFunctionCalls]_vars

\* Two tool calls went out, the second one for a part at position 1 that
\* came after a part without a tool call.
C37_Witness ==
    /\ Len(ToolCallChunks) = 2
    /\ ToolCallChunks[1].pos = 1
    /\ ToolCallChunks[2].pos = 0
    /\ ToolCallChunks[2].index = 1
    /\ ctx.toolCallIndex = 2

\* Two frames carried a functionCall part at the same position and the
\* output has its one tool-call chunk.
C2_Witness ==
    \E pos \in Positions :
        /\ Cardinality(FramesCalling(pos)) >= 2
        /\ Cardinality(ToolCallChunksFor(pos)) = 1

\* The places of the chunks with a non-null finish_reason.
FinishChunks(sq) == {q \in 1..Len(sq) : sq[q].finish_reason # "null"}

FinishInv ==
    /\ tState = "reading" => FinishChunks(out) = {}
    /\ tState = "closed" =>
          /\ FinishChunks(out) = {Len(out)}
          /\ out[Len(out)].finish_reason = "stop"

\* C4: the transformer's output has no finish chunk while it is open; once
\* closed (after a normal end or a read error) it has exactly one, with
\* finish_reason "stop", as its last chunk, and nothing is emitted after the
\* close.
C4_OneStopChunkLast ==
    /\ []FinishInv
    /\ [][tState = "closed" => (out' = out /\ tState' = "closed")]_vars

\* A read error came after chunks had been emitted, and the output is closed.
C4_Witness ==
    /\ tState = "closed"
    /\ Len(out) > 1
    /\ out[Len(out)] = ErrorChunk

\* C23 (as stated): once the client has disconnected, the transformer is
\* closed and the upstream body is cancelled: no step after the disconnect
\* reads from the upstream body or emits a chunk.
C23_DisconnectStopsUpstreamReads ==
    /\ [](sseState = "cancelled" => tState = "closed")
    /\ [][sseState = "cancelled" =>
            UNCHANGED <<frames, buffer, ctx, out, tState>>]_vars

\* C18: the step in which reading the upstream body fails appends exactly one
\* chunk to what was emitted before, the chunk with the "Stream error" content
\* and finish_reason "stop"; the chunks emitted for the earlier frames stay as
\* they were; the output never holds an empty stop chunk together with the
\* error chunk; and the output stream is closed, not errored.
C18_ErrorChunkAfterPartialOutput ==
    /\ [](\A q \in 1..Len(out) :
             out[q].kind = "error" =>
                /\ out[q] = ErrorChunk
                /\ q = Len(out)
                /\ tState = "closed"
                /\ \A r \in 1..Len(out) : out[r] # StopChunk)
    /\ [][(tState = "reading" /\ tState' # "reading") =>
             /\ tState' = "closed"
             /\ \/ /\ out' = Append(out, ErrorChunk)
                   /\ frames' = frames
                \/ /\ out'[Len(out')] = StopChunk
                   /\ SubSeq(out', 1, Len(out)) = out
                   /\ \A q \in 1..Len(out') : out'[q].kind # "error"]_vars

\* Reading failed after two frames had been processed, one of them with a
\* function call: their chunks are followed by the error chunk.
C18_Witness ==
    /\ tState = "closed"
    /\ Len(frames) = 2
    /\ Len(out) >= 3
    /\ out[Len(out)] = ErrorChunk
    /\ \E q \in 1..(Len(out) - 1) : out[q].kind = "tool_calls"
    /\ \E q \in 1..(Len(out) - 1) : out[q].kind = "content"

\* the chunks made for parts
PartChunks == {q \in 1..Len(out) : out[q].kind \in {"content", "tool_calls"}}

\* C19: the chunks made for parts stand in the output in the order of their
\* parts (by frame, in the order the frames were taken up, then by position
\* inside the frame), and a chunk with a finish_reason stands after all of
\* them.
C19_ReceiveOrder ==
    /\ \A q, r \in PartChunks :
          q < r =>
             \/ out[q].frame < out[r].frame
             \/ out[q].frame = out[r].frame /\ out[q].pos < out[r].pos
    /\ \A q \in PartChunks :
          /\ out[q].frame \in 1..Len(frames)
          /\ out[q].pos \in 0..(Len(frames[out[q].frame]) - 1)
    /\ \A q \in 1..Len(out) :
          out[q].finish_reason # "null" => \A r \in PartChunks : r < q

\* Three chunks from two frames, the second frame with two parts, and then
\* the finish chunk.
C19_Witness ==
    /\ tState = "closed"
    /\ Len(frames) = 2
    /\ Len(frames[2]) = 2
    /\ Cardinality(PartChunks) = 3
    /\ out[Len(out)] = StopChunk

ContentChunksFor(k, pos) ==
    {q \in 1..Len(out) :
        out[q].kind = "content" /\ out[q].frame = k /\ out[q].pos = pos}

\* C20: each part with non-empty text of each frame has exactly one content
\* chunk, whatever earlier frames held at its position, except that a thought
\* part has none when keepThinking is off; a part with empty text or a
\* function call has no content chunk.
C20_TextNotDeduplicated ==
    \A k \in 1..Len(frames) : \A pos \in 0..(Len(frames[k]) - 1) :
        Cardinality(ContentChunksFor(k, pos)) =
           (IF frames[k][pos + 1] = "text" THEN 1
            ELSE IF frames[k][pos + 1] = "thought" /\ keepThinking THEN 1
            ELSE 0)

\* Two cumulative frames repeat a text part at position 0, each with its own
\* chunk, and the thought part of the second has none, keepThinking being off.
C20_Witness ==
    /\ ~keepThinking
    /\ Len(frames) = 2
    /\ frames[1] = <<"text">>
    /\ frames[2] = <<"text", "thought">>
    /\ Cardinality(ContentChunksFor(1, 0)) = 1
    /\ Cardinality(ContentChunksFor(2, 0)) = 1
    /\ Cardinality(ContentChunksFor(2, 1)) = 0

DoneFrames == {q \in 1..Len(sseOut) : sseOut[q].frame = "[DONE]"}

FinishFrames ==
    {q \in 1..Len(sseOut) :
        sseOut[q].frame = "data" /\ sseOut[q].chunk.finish_reason # "null"}

\* C3: a client stream that streamResponse has brought to its end has exactly
\* one [DONE] frame, as its last frame, and exactly one chunk with a non-null
\* finish_reason before it; a stream not yet at its end has no [DONE] frame.
C3_DoneLastAfterOneFinish ==
    /\ sseState = "closed" =>
          /\ DoneFrames = {Len(sseOut)}
          /\ Cardinality(FinishFrames) = 1
    /\ sseState # "closed" => DoneFrames = {}

\* The client stream has ended after content, a finish chunk and the sentinel.
C3_Witness ==
    /\ sseState = "closed"
    /\ Len(sseOut) >= 3
    /\ sseOut[Len(sseOut)] = DoneFrame
    /\ sseOut[Len(sseOut) - 1].chunk.finish_reason = "stop"

(***************************************************************************)
(* Claims about the credential cache.                                      *)
(***************************************************************************)
\* C1 (as stated): calls for a token made while none of its access tokens is
\* cached unexpired cause one POST (no two refreshes for the token are ever
\* unfinished together), and its answer brings an access token to every
\* caller.
C1_OnePostOneToken ==
    \A t \in RefreshTokens :
        /\ Cardinality(Unfinished(t)) <= 1
        /\ \A p \in Unfinished(t) :
              promises[p].state = "settled" => promises[p].result.kind = "token"

\* No clearTokenCache has run while a refresh for t was unfinished.
NeverCleared(t) == \A p \in Unfinished(t) : ~promises[p].cleared

SingleFlightInv ==
    \A t \in RefreshTokens :
        NeverCleared(t) =>
            /\ Cardinality(Unfinished(t)) <= 1
            /\ \A p \in Unfinished(t) :
                  /\ t \in DOMAIN refreshPromises
                  /\ refreshPromises[t] = p
                  /\ promises[p].callers >= 1

\* The token endpoint answers refresh p in this step.
Answered(p) == promises[p].state = "fetching" /\ promises'[p].state = "settled"

\* C1 (amended): as long as clearTokenCache has not run while a refresh for
\* the token was unfinished, the calls made for a token while a refresh for
\* it is unfinished and no unexpired access token is cached all hold the
\* promise of that one refresh and cause no further POST.  When the POST is
\* answered 2xx, refreshes grows by exactly 1 and the promise carries the
\* access token just cached; when it is answered otherwise, refreshes does
\* not grow and the promise carries the error.
C1_SingleFlight ==
    /\ []SingleFlightInv
    /\ [][\A p \in 1..Len(promises) :
             Answered(p) =>
                IF promises'[p].result.kind = "token"
                THEN /\ cacheMetrics'.refreshes = cacheMetrics.refreshes + 1
                     /\ LET at == CacheIndex(tokenCache', promises[p].token)
                        IN  /\ at # 0
                            /\ promises'[p].result =
                                 AccessToken(tokenCache'[at].accessToken)
                ELSE /\ cacheMetrics'.refreshes = cacheMetrics.refreshes
                     /\ promises'[p].result.kind \in
                          {"invalid_token", "rate_limit", "network_error"}]_vars

\* C12: when the token endpoint answers a refresh with 400 or 401, the error
\* raised is an invalid_token error and after the step the cache has no entry
\* for the refresh token; when it answers 429 the error is a rate_limit error,
\* with any other non-2xx status a network_error error, and in both cases the
\* cache (every entry's access token, expiry and project id) is as it was.
C12_RefreshFailure ==
    [][\A p \in 1..Len(promises) :
          (Answered(p) /\ promises'[p].result.kind # "token") =>
             LET t == promises[p].token
                 statusCode == promises'[p].result.value
             IN  IF statusCode \in {400, 401}
                 THEN /\ promises'[p].result.kind = "invalid_token"
                      /\ CacheIndex(tokenCache', t) = 0
                      /\ \A q \in 1..Len(tokenCache) :
                            tokenCache[q].key # t =>
                               \E r \in 1..Len(tokenCache') : tokenCache'[r] = tokenCache[q]
                 ELSE /\ promises'[p].result.kind =
                            (IF statusCode = 429 THEN "rate_limit" ELSE "network_error")
                      /\ statusCode \notin 200..299
                      /\ tokenCache' = tokenCache]_vars

\* A refresh was answered 400 or 401 while the cache held an entry for its
\* token (one refresh had succeeded, nothing was swept, evicted or cleared
\* since), and the entry is gone.
C12_Witness ==
    /\ cacheMetrics.refreshes = 1
    /\ cacheMetrics.evictedByCleanup = 0
    /\ cacheMetrics.evictedByLRU = 0
    /\ tokenCache = <<>>
    /\ \E p \in 1..Len(promises) :
          /\ promises[p].state = "settled"
          /\ promises[p].result.kind = "invalid_token"

\* The .finally callback of refresh p runs in this step: the promise that the
\* callers of p hold settles.
Finished(p) == promises[p].state = "settled" /\ promises'[p].state = "finished"

\* getAccessToken would serve t from the cache
Servable(cache, t) ==
    LET at == CacheIndex(cache, t) IN at # 0 /\ cache[at].expiresAt > now

RecordsInv ==
    \A t \in DOMAIN refreshPromises :
        /\ refreshPromises[t] \in 1..Len(promises)
        /\ promises[refreshPromises[t]].token = t
        /\ promises[refreshPromises[t]].state # "finished"

\* A getAccessToken call that misses either starts a refresh, which it does
\* when its token has no record, or joins the unfinished refresh on record.
MissStep ==
    cacheMetrics'.misses = cacheMetrics.misses + 1 =>
        \/ /\ Len(promises') = Len(promises) + 1
           /\ promises'[Len(promises')].state = "fetching"
           /\ promises'[Len(promises')].token \notin DOMAIN refreshPromises
           /\ refreshPromises'[promises'[Len(promises')].token] = Len(promises')
        \/ /\ Len(promises') = Len(promises)
           /\ \E p \in 1..Len(promises) :
                 /\ promises'[p].callers = promises[p].callers + 1
                 /\ promises[p].state # "finished"
                 /\ promises[p].token \in DOMAIN refreshPromises
                 /\ refreshPromises[promises[p].token] = p

LiveEntry(t) ==
    \E q \in 1..Len(tokenCache) :
        tokenCache[q].key = t /\ tokenCache[q].expiresAt > now

\* C14: a getAccessToken call made while the cache holds an entry for its
\* token with expiry > now is a hit: hits grows by exactly 1; misses,
\* refreshes and the eviction counters stay; no refresh is started or joined
\* (no outbound request); and every entry keeps its access token, expiry and
\* project id, only lastAccessedAt of the entry served becoming now.  A call
\* counts as a hit only in that case.
C14_CacheHitFrame ==
    [][calls' = calls + 1 =>
          /\ (\A t \in RefreshTokens : LiveEntry(t)) =>
                cacheMetrics'.hits = cacheMetrics.hits + 1
          /\ cacheMetrics'.hits = cacheMetrics.hits + 1 =>
                /\ cacheMetrics' = [cacheMetrics EXCEPT !.hits = @ + 1]
                /\ promises' = promises
                /\ refreshPromises' = refreshPromises
                /\ fingerprintCache' = fingerprintCache
                /\ \E t \in RefreshTokens :
                      /\ LiveEntry(t)
                      /\ Len(tokenCache') = Len(tokenCache)
                      /\ \A q \in 1..Len(tokenCache) :
                            tokenCache'[q] =
                               IF tokenCache[q].key = t
                               THEN [tokenCache[q] EXCEPT !.lastAccessedAt = now]
                               ELSE tokenCache[q]]_vars

\* One refresh cached a token and two later calls were served from the cache,
\* at a time later than the start.
C14_Witness ==
    /\ cacheMetrics.hits = 2
    /\ cacheMetrics.misses = 1
    /\ cacheMetrics.refreshes = 1
    /\ Len(promises) = 1
    /\ Len(tokenCache) = 1
    /\ tokenCache[1].lastAccessedAt = now
    /\ now > 0

\* The keys the step removes from the cache.
RemovedKeys ==
    {tokenCache[q].key : q \in 1..Len(tokenCache)}
        \ {tokenCache'[q].key : q \in 1..Len(tokenCache')}

\* The step removes n entries from the cache, changes no other entry and
\* adds none; each entry it keeps was accessed no earlier than each entry it
\* removes; and evictedByLRU grows by n.
LruEviction(n) ==
    /\ tokenCache' = SelectSeq(tokenCache, LAMBDA e : e.key \notin RemovedKeys)
    /\ Cardinality(RemovedKeys) = n
    /\ \A q, r \in 1..Len(tokenCache) :
          (tokenCache[q].key \in RemovedKeys /\ tokenCache[r].key \notin RemovedKeys)
             => tokenCache[q].lastAccessedAt <= tokenCache[r].lastAccessedAt
    /\ cacheMetrics'.evictedByLRU = cacheMetrics.evictedByLRU + n
    /\ \A k \in RemovedKeys : k \notin fingerprintCache'

\* size - MAX_CACHE_SIZE when the cache holds more than MAX_CACHE_SIZE entries
Excess == IF Len(tokenCache) > MAX_CACHE_SIZE
          THEN Len(tokenCache) - MAX_CACHE_SIZE ELSE 0

C30_CacheBoundedAtRest ==
    (\A p \in 1..Len(promises) : promises[p].state = "finished")
        => Len(tokenCache) <= MAX_CACHE_SIZE

\* C16: in every step that removes an entry from the credential cache (the
\* cleanup sweep, an LRU eviction, a refresh answered 400 or 401,
\* clearTokenCache), the refresh token of the entry has no fingerprint entry
\* once the step is done.
C16_FingerprintEvictedWithEntry ==
    [][\A k \in RemovedKeys : k \notin fingerprintCache']_vars

\* Both entries the cache started with are gone, one swept and one evicted by
\* LRU, and so are the fingerprints their tokens had.
C16_Witness ==
    /\ cacheMetrics.evictedByLRU = 1
    /\ cacheMetrics.evictedByCleanup = 1
    /\ cacheMetrics.misses > MAX_CACHE_SIZE
    /\ fingerprintCache \cap FingerprintedTokens = {}
    /\ \A q \in 1..Len(tokenCache) : tokenCache[q].key \in NewTokens

\* the keys of the entries whose expiry is earlier than now
ExpiredKeys ==
    {tokenCache[q].key : q \in {r \in 1..Len(tokenCache) : tokenCache[r].expiresAt < now}}

\* What a run of the sweep would make of the current cache: the entries that
\* are not expired, unchanged and in their order, evictedByCleanup grown by
\* the number of expired ones, the other counters as they are.
SweepResultInv ==
    LET st == cleanupExpiredEntries(CacheState)
    IN  /\ st.cache = SelectSeq(tokenCache, LAMBDA e : e.key \notin ExpiredKeys)
        /\ st.metrics = [cacheMetrics EXCEPT
                            !.evictedByCleanup = @ + Cardinality(ExpiredKeys)]
        /\ \A t \in NewTokens \cup FingerprintedTokens :
              LiveEntry(t) => \E q \in 1..Len(st.cache) : st.cache[q].key = t

\* C17: a run of the cleanup sweep removes exactly the entries whose expiry is
\* earlier than the current time (an entry expiring right now stays), so
\* never one that getAccessToken would serve as a hit, and evictedByCleanup
\* grows by one per entry removed; no other step makes evictedByCleanup grow.
C17_SweepRemovesExpired ==
    /\ []SweepResultInv
    /\ [][cacheMetrics'.evictedByCleanup > cacheMetrics.evictedByCleanup =>
             /\ RemovedKeys = ExpiredKeys
             /\ tokenCache' = SelectSeq(tokenCache, LAMBDA e : e.key \notin ExpiredKeys)
             /\ cacheMetrics' = [cacheMetrics EXCEPT
                                   !.evictedByCleanup = @ + Cardinality(ExpiredKeys)]
             /\ \A t \in RemovedKeys : ~LiveEntry(t)]_vars

\* The sweep has removed the one entry that had expired and has kept an entry
\* that expires right now.
C17_Witness ==
    /\ cacheMetrics.evictedByCleanup = 1
    /\ cacheMetrics.evictedByLRU = 0
    /\ cacheMetrics.misses >= MAX_CACHE_SIZE
    /\ now = 1
    /\ \A q \in 1..Len(tokenCache) : tokenCache[q].key # OldToken(2)
    /\ \E q \in 1..Len(tokenCache) :
          tokenCache[q].key = OldToken(1) /\ tokenCache[q].expiresAt = now

\* Three calls found no access token cached, hold the promise of one refresh,
\* which is the only one ever started, and its POST was answered 2xx.
C1_Witness ==
    /\ Len(promises) = 1
    /\ promises[1].callers = 3
    /\ promises[1].state = "settled"
    /\ promises[1].result.kind = "token"
    /\ cacheMetrics.misses = 3
    /\ cacheMetrics.refreshes = 1

(***************************************************************************)
(* Claims about the model identifier functions.                            *)
(***************************************************************************)
\* C26: normalizeModelForAntigravity returns an identifier that ends with a
\* tier suffix (-low, -medium, -high, -minimal) unchanged, whatever the
\* effort; and applying it to its own result, with any effort, changes
\* nothing.
C26_NormalizeKeepsTierSuffix ==
    /\ [](applied.fn = "normalizeModelForAntigravity"
            /\ EndsWith(modelArg, TierSegments)
          => modelName = modelArg)
    /\ [][applied.fn = "normalizeModelForAntigravity"
            /\ applied'.fn = "normalizeModelForAntigravity"
            /\ applications' = applications + 1
          => modelName' = modelName]_vars

\* gemini-3-pro was normalized with effort low, and the result, which ends
\* with -low, was normalized again with effort high and came back unchanged.
C26_Witness ==
    /\ applications = 2
    /\ applied = [fn |-> "normalizeModelForAntigravity", arg |-> "high"]
    /\ modelArg = <<"gemini-3-pro", "low">>
    /\ modelName = <<"gemini-3-pro", "low">>

\* C27 (as stated): resolveModelForHeaderStyle(model, "antigravity") is the
\* model without its trailing -preview, and the model itself when it has no
\* such suffix.
C27_AntigravityStripsPreview ==
    applied = [fn |-> "resolveModelForHeaderStyle", arg |-> "antigravity"]
        => modelName = IF EndsWith(modelArg, {"preview"})
                       THEN SubSeq(modelArg, 1, Len(modelArg) - 1)
                       ELSE modelArg

(***************************************************************************)
(* Claims about the request handler.                                       *)
(***************************************************************************)
\* The step in which the handler takes up the request.
TakenUp == hpc = "arrived" /\ hpc' # "arrived"

\* The handler answers with the status and does nothing else: nothing of the
\* credential cache changes, no refresh is started, no loadCodeAssist and no
\* upstream call is made.
TurnedAway(status) ==
    /\ httpStatus' = status
    /\ hpc' = "responded"
    /\ UNCHANGED authVars
    /\ UNCHANGED <<discoveryPosts, sent, awaited>>

\* No refresh is under way.
NoRefresh ==
    /\ refreshPromises = <<>>
    /\ \A p \in 1..Len(promises) : promises[p].state = "finished"

HasProject == hpc \in {"haveProject", "accessToken", "upstream"} \/ sent # <<>>

\* C22 (as stated): when ANTIGRAVITY_PROJECT_ID is set, no loadCodeAssist
\* request is sent, and the project id getProjectId gives the handler, and
\* the one of the upstream payload, is the one of the environment.
C22_EnvProjectIdOverridesDiscovery ==
    envProjectId # "" =>
        /\ discoveryPosts = 0
        /\ HasProject => projectId = envProjectId
        /\ \A k \in 1..Len(sent) : sent[k].project = envProjectId

\* The request passes the checks of lines 92-108.
Admitted == request.bearer # "" /\ request.json /\ request.messages = "present"

\* The model of the request is thinking-capable, not of the Claude family,
\* and neither Gemini 3 Pro nor Gemini 3 Flash.
OtherThinking ==
    LET lower == SegmentsOf(toLowerCase(ModelOf(request)))
    IN  /\ isThinkingCapableModel(ModelOf(request))
        /\ ~isClaudeModel(ModelOf(request))
        /\ lower \cap (Gemini3ProSegments \cup Gemini3FlashSegments) = {}

\* The thinkingConfig with the budget of the request's effort.
BudgetOfRequest ==
    [thinkingBudget |-> mapReasoningEffortToTokenBudget(request.reasoning_effort),
     includeThoughts |-> TRUE]

\* The handler goes on with the budget configuration.
GoesOnWithBudget ==
    /\ thinkingConfig' = BudgetOfRequest
    /\ hpc' # "responded"
    /\ httpStatus' = 0

\* C28 (as stated): for every admitted request whose model is thinking-capable
\* and neither Gemini 3 Pro, Gemini 3 Flash nor of the Claude family, the
\* handler builds thinkingConfig = {thinkingBudget, includeThoughts: true}
\* and goes on to the upstream call; it does not reject the request.
C28_OtherThinkingGetsBudget ==
    [][TakenUp /\ Admitted /\ OtherThinking => GoesOnWithBudget]_vars

\* The model names Gemini 3.
NamesGemini3 ==
    SegmentsOf(toLowerCase(ModelOf(request))) \cap Gemini3Segments # {}

\* C28 (amended): for an admitted request whose model is thinking-capable,
\* not of the Claude family and does not contain "gemini-3", the handler
\* builds thinkingConfig = {thinkingBudget, includeThoughts: true}, goes on,
\* and every upstream call carries that configuration; a model that contains
\* "gemini-3" and is neither Gemini 3 Pro nor Gemini 3 Flash is answered 500
\* with nothing else done.
C28_NonGemini3ThinkingGetsBudget ==
    /\ [][TakenUp /\ Admitted /\ OtherThinking =>
            IF NamesGemini3 THEN TurnedAway(500) ELSE GoesOnWithBudget]_vars
    /\ [](Admitted /\ OtherThinking =>
            /\ NamesGemini3 => sent = <<>>
            /\ \A k \in 1..Len(sent) : sent[k].thinkingConfig = BudgetOfRequest)

\* gemini-2.5-flash-thinking with effort high went upstream with a thinking
\* budget of 32768 and includeThoughts.
C28_Witness ==
    /\ Len(sent) = 1
    /\ request.model = <<"gemini-2.5-flash", "thinking">>
    /\ request.reasoning_effort = "high"
    /\ sent[1].thinkingConfig = [thinkingBudget |-> 32768, includeThoughts |-> TRUE]


(***************************************************************************)
(* Claims about the schema cleaners.                                       *)
(***************************************************************************)
\* C24: cleanLight and cleanStrict leave the tree they are given unchanged
\* at every depth: after a call the object passed is what it was at the call.
C24_CleanersLeaveInputUnchanged == cleanedBy # "none" => schemaAfter = schemaArg

\* schema.description removed at every object of the tree
RECURSIVE StripDescriptions(_)
StripDescriptions(tree) ==
    IF ~IsNode(tree) THEN tree
    ELSE IF IsArray(tree)
    THEN Arr([q \in 1..Len(tree.v) |-> StripDescriptions(tree.v[q])])
    ELSE Obj([k \in DOMAIN tree.v \ {"description"} |-> StripDescriptions(tree.v[k])])

\* C25: cleaning an already cleaned tree changes nothing: a second cleanLight
\* returns the tree it was given, and a second cleanStrict returns it up to
\* the description fields.
C25_CleanersIdempotent ==
    [][(cleanedBy # "none" /\ cleanedBy' = cleanedBy /\ cleanings' = cleanings + 1) =>
          IF cleanedBy = "light" THEN schemaTree' = schemaTree
          ELSE StripDescriptions(schemaTree') = StripDescriptions(schemaTree)]_vars


\* The node lists required names only with a properties object that has
\* them all, and lists at least one; so does every node below it.
RECURSIVE RequiredWithinProperties(_)
RequiredWithinProperties(tree) ==
    IF ~IsNode(tree) THEN TRUE
    ELSE IF IsArray(tree)
    THEN \A q \in 1..Len(tree.v) : RequiredWithinProperties(tree.v[q])
    ELSE /\ HasArray(tree, "required") =>
               /\ Len(tree.v["required"].v) > 0
               /\ Has(tree, "properties")
               /\ \A q \in 1..Len(tree.v["required"].v) :
                      InProperties(tree.v["required"].v[q], tree.v["properties"])
         /\ \A k \in DOMAIN tree.v : RequiredWithinProperties(tree.v[k])

\* C34: in the output of cleanStrict every name listed in required, at every
\* node, is a key of the node's properties, and no required list is empty.
C34_RequiredNamesAreProperties ==
    cleanedBy = "strict" => RequiredWithinProperties(schemaTree)

\* $ref, allOf, anyOf or oneOf at the node: the node is rewritten as a whole.
Rewritten(schema) == \E k \in {"$ref", "allOf", "anyOf", "oneOf"} : Has(schema, k)

\* The output node has the property names of the input node, and so on down
\* the properties, as far as no node on the way is rewritten or empty.
RECURSIVE KeepsPropertyNames(_, _)
KeepsPropertyNames(input, output) ==
    IF ~IsObject(input) \/ Rewritten(input) THEN TRUE
    ELSE IF ~(Has(input, "properties") /\ IsObject(input.v["properties"])
                 /\ Size(input.v["properties"]) > 0)
    THEN TRUE
    ELSE /\ IsObject(output)
         /\ Has(output, "properties")
         /\ IsObject(output.v["properties"])
         /\ DOMAIN output.v["properties"].v = DOMAIN input.v["properties"].v
         /\ \A name \in DOMAIN input.v["properties"].v :
                KeepsPropertyNames(input.v["properties"].v[name],
                                   output.v["properties"].v[name])

\* C35: cleanStrict keeps the property names of every properties map that no
\* $ref, allOf, anyOf or oneOf above it rewrites, whatever the names are.
C35_StrictKeepsPropertyNames ==
    cleanedBy = "strict" => KeepsPropertyNames(schemaArg, schemaTree)


(***************************************************************************)
(* Claims about the transformer's line buffer.                             *)
(***************************************************************************)
\* The transformer's state had it been given the text as one chunk.
AsOneChunk(text) ==
    LinesLoop([ctx |-> [toolCallIndex |-> 0, emittedFunctionCalls |-> {}],
               out |-> <<>>, frames |-> <<>>],
              SubSeq(Split(text), 1, Len(Split(text)) - 1))

\* The piece of the text after its last newline.
PartialLine(text) == Split(text)[Len(Split(text))]

\* C36: the output of the transformer depends on the bytes read so far and
\* not on the chunks they came in: it is what one chunk holding them all
\* would have given, the line still open is kept aside unprocessed, and
\* frames are taken up only by a read that brings a newline or by the end
\* of the body.
C36_OutputIndependentOfChunking ==
    /\ [](tState = "reading" =>
            /\ out = AsOneChunk(received).out
            /\ frames = AsOneChunk(received).frames
            /\ ctx = AsOneChunk(received).ctx
            /\ buffer = PartialLine(received))
    /\ [](tState = "closed" =>
            /\ out = Append(Remainder(AsOneChunk(received),
                                      PartialLine(received)).out, StopChunk)
            /\ frames = Remainder(AsOneChunk(received), PartialLine(received)).frames)
    /\ [][frames' # frames =>
             \/ tState' = "closed"
             \/ \E q \in (Len(received) + 1)..Len(received') : received'[q] = NL]_vars

\* A read ended in the middle of a data line after a first frame: the prefix
\* is kept aside, its frame is still to come, and nothing was emitted for it.
C36_Witness ==
    /\ tState = "reading"
    /\ buffer = <<DataPrefix>>
    /\ unread # <<>>
    /\ unread[1].t = "json"
    /\ Len(frames) = 1
    /\ ctx.toolCallIndex = 1

(***************************************************************************)
(* Claims about the cleanup timer and the cache metrics                    *)
(***************************************************************************)
\* the calls that stop the cleanup timer
StopCalls == {"clearTokenCache", "resetCleanupTimer"}

\* C38 as stated: at most one periodic cleanup task is active at any time;
\* after clearTokenCache or resetCleanupTimer none is active, and the next
\* getAccessToken call, whatever its refresh token, starts exactly one.
C38_NextCallStartsTheTask ==
    /\ [](intervals <= 1)
    /\ [][/\ (ClearTokenCache \/ ResetCleanupTimer) => intervals' = 0
          /\ (/\ lastCall \in StopCalls
              /\ \E t \in RefreshTokens \cup {NoToken} : GetAccessToken(t))
             => intervals = 0 /\ intervals' = 1]_vars

\* C38 amended: at most one periodic cleanup task is active at any time, and
\* the handle is set exactly when one is; after clearTokenCache or
\* resetCleanupTimer none is active, and the next getAccessToken call with a
\* non-empty refresh token starts exactly one, while a call with an empty
\* refresh token throws and starts none.
C38_OneCleanupTask ==
    /\ [](intervals <= 1 /\ (cleanupTimer <=> intervals = 1))
    /\ [][/\ (ClearTokenCache \/ ResetCleanupTimer) => intervals' = 0
          /\ (/\ lastCall \in StopCalls
              /\ \E t \in RefreshTokens : GetAccessToken(t))
             => intervals = 0 /\ intervals' = 1
          /\ GetAccessToken(NoToken) => intervals' = intervals]_vars

\* The cache was cleared while a refresh was in flight, and a later
\* getAccessToken call has started the cleanup task again.
C38_Witness ==
    /\ lastCall = "getAccessToken"
    /\ intervals = 1
    /\ \E p \in 1..Len(promises) : promises[p].cleared
\* the five counters of getCacheMetrics()
Counters == DOMAIN ZeroMetrics

\* hits + misses
Lookups(metrics) == metrics.hits + metrics.misses

\* Apart from clearTokenCache, which zeroes them, no step lowers a counter,
\* and hits + misses grows by one with each getAccessToken call made with a
\* non-empty refresh token and with nothing else.
CountersFollowCalls ==
    [][~clearTokenCache =>
          /\ \A c \in Counters : cacheMetrics'[c] >= cacheMetrics[c]
          /\ Lookups(cacheMetrics') - Lookups(cacheMetrics) = calls' - calls]_vars

\* C39 as stated: between two clearTokenCache calls, hits + misses equals the
\* number of getAccessToken calls made with a non-empty refresh token,
\* refreshes never exceeds misses, and none of the five counters decreases.
C39_RefreshesWithinMisses ==
    /\ [](cacheMetrics.refreshes <= cacheMetrics.misses)
    /\ CountersFollowCalls

\* C39 amended: between two clearTokenCache calls, hits + misses equals the
\* number of getAccessToken calls made with a non-empty refresh token and none
\* of the five counters decreases; refreshes never exceeds misses by more
\* than the number of refreshes that were in flight when clearTokenCache was
\* last called.
C39_MetricsFollowCalls ==
    /\ [](cacheMetrics.refreshes <= cacheMetrics.misses + strays)
    /\ CountersFollowCalls

\* After a clearTokenCache call that found no refresh in flight, one call
\* missed and was refreshed, and one was served from the cache.
C39_Witness ==
    /\ strays = 0
    /\ calls > Lookups(cacheMetrics)
    /\ cacheMetrics.hits = 1
    /\ cacheMetrics.misses = 1
    /\ cacheMetrics.refreshes = 1
(***************************************************************************)
(* Claims about the project id of a cached entry                           *)
(***************************************************************************)
\* The refresh p is answered 2xx in this step.
Succeeds(p) ==
    /\ promises[p].state = "fetching"
    /\ promises'[p].state = "settled"
    /\ promises'[p].result.kind = "token"

\* the expiry times a refresh answered now can write
NewExpiries == {now + expires_in - SafetyMargin : expires_in \in ExpiresIn}

\* C33: a successful refresh for a refresh token that already has a cache
\* entry writes the new access token, the new expiry and lastAccessedAt into
\* that entry and leaves its project id (and every other entry) as it was;
\* a getProjectId call that finds a project id in the entry, as it does after
\* such a refresh, returns it without calling getAccessToken and without a
\* discovery request.
C33_RefreshKeepsProject ==
    /\ [][\A p \in 1..Len(promises) :
             LET at == CacheIndex(tokenCache, promises[p].token)
             IN  (Succeeds(p) /\ at # 0) =>
                    /\ Len(tokenCache') = Len(tokenCache)
                    /\ \A k \in 1..Len(tokenCache) :
                           k # at => tokenCache'[k] = tokenCache[k]
                    /\ tokenCache'[at].key = tokenCache[at].key
                    /\ tokenCache'[at].projectId = tokenCache[at].projectId
                    /\ tokenCache'[at].accessToken = promises'[p].result.value
                    /\ tokenCache'[at].expiresAt \in NewExpiries
                    /\ tokenCache'[at].lastAccessedAt = now]_vars
    /\ [][LET at == CacheIndex(tokenCache, request.bearer)
          IN  (/\ hpc = "arrived"
               /\ hpc' \notin {"arrived", "responded"}
               /\ at # 0
               /\ tokenCache[at].projectId # "undefined") =>
                  /\ hpc' = "haveProject"
                  /\ projectId' = tokenCache[at].projectId
                  /\ discoveryPosts' = 0
                  /\ promises' = promises
                  /\ calls' = calls]_vars
    /\ [](LET at == CacheIndex(tokenCache, request.bearer)
          IN  (at # 0 /\ tokenCache[at].projectId = "p0") =>
                  /\ discoveryPosts = 0
                  /\ hpc \notin {"arrived", "responded"} => projectId = "p0")

\* The entry that held a project and an expired access token has been
\* refreshed, and the request has its project from it, with no discovery.
C33_Witness ==
    /\ hpc = "haveProject"
    /\ projectId = "p0"
    /\ discoveryPosts = 0
    /\ tokenCache = <<[StaleEntry("p0") EXCEPT !.accessToken = 2,
                                                !.expiresAt = 1]>>
    /\ promises[2].state = "settled"
====
